---- MODULE Spec2Model ----
(***************************************************************************)
(* Broker-hierarchy scoped authorization of the CotizateAlgo backend:      *)
(* the broker store (a self-referencing parentId forest), the hierarchy    *)
(* service (recursive CTE traversals capped at 10 levels), the permission  *)
(* engine (colon-split permission strings) and the register / invitation   *)
(* flows that create brokers.                                              *)
(*                                                                         *)
(* Identifiers are integers: a positive number is a row id, EmptyId is the *)
(* empty string '' and Null is null/undefined.  Both are falsy in the      *)
(* TypeScript source, but they are different values under ===.             *)
(***************************************************************************)
EXTENDS Integers, Sequences, FiniteSets, TLC

VARIABLES
  brokers,          \* Broker rows: id -> [name, parentId]; under Spec also
                    \* via, the operation that created the row (history)
  profiles,         \* Profile rows: id (= auth user id) -> [brokerId, cedulaRuc]
  userRoles,        \* UserRole rows [userId, roleId, assignedBy]
  rolePermissions,  \* RolePermission rows joined with their Permission row
  roles,            \* Role rows: id -> [name]
  invitations,      \* Invitation rows: id (= token) -> [email, invitedBy, ...]
  authUsers,        \* auth-provider users: id -> [email]
  now,              \* the clock, in milliseconds
  ticks,            \* number of clock advances so far
  reqs,             \* per request slot: where a handler in flight stands
  last              \* the call that completed last, with its outcome

vars == <<brokers, profiles, userRoles, rolePermissions, roles,
          invitations, authUsers, now, ticks, reqs, last>>

storeVars == <<brokers, profiles, userRoles, rolePermissions, roles,
               invitations, authUsers, now, ticks, reqs>>

-----------------------------------------------------------------------------
(* Values *)

Null == 0 - 1

EmptyId == 0

Falsy(x) == x = Null \/ x = EmptyId

-----------------------------------------------------------------------------
(* Bounds *)

\* brokers 1..NumChain of the hierarchy family; a prefix of them is a chain
NumChain == 15

\* brokers of the forests the permission engine is exercised on
NumSmall == 3

\* colon-separated tokens of the permission strings that are passed in
MaxTokens == 3

\* distinct broker names
NumNames == 2

\* distinct cedulas
NumCedulas == 2

\* Invitation rows the store may hold
MaxInvitations == 1

\* user ids (auth-provider users and profiles) in existence
MaxAuthUsers == 3

\* clock advances
MaxTicks == 1

\* request slots (handlers in flight at the same time)
NumProcs == 2

\* distinct e-mail addresses
NumEmails == 2

-----------------------------------------------------------------------------
(* Generic sequence helpers *)

SeqRange(s) == {s[i] : i \in 1..Len(s)}

Includes(s, x) == \E i \in 1..Len(s) : s[i] = x

\* all orderings of a finite set, as sequences without repetition
RECURSIVE Orderings(_)
Orderings(S) ==
  IF S = {} THEN {<<>>}
  ELSE UNION {{<<x>> \o t : t \in Orderings(S \ {x})} : x \in S}

-----------------------------------------------------------------------------
(* BrokerHierarchyService: the recursive CTEs *)

\* WHERE bh.level < 10
MaxLevel == 10

\* one recursive step of the downward CTE: brokers b joined to the rows bh of
\* the previous level ON b.parent_id = bh.id
ChildrenOf(B, rows) == {b \in DOMAIN B : B[b].parentId \in rows}

\* one recursive step of the upward CTE: ON bh.parent_id = b.id
ParentsOf(B, rows) == {b \in DOMAIN B : \E c \in rows : B[c].parentId = b}

\* the rows of the CTE by level, levels[k + 1] holding the rows of level k:
\* level 0 is the row WHERE id = brokerId, and the rows of a level are
\* expanded only WHERE bh.level < MaxLevel
RECURSIVE HierarchyLevelsOffByOne(_, _, _)
HierarchyLevelsOffByOne(B, levels, down) ==
  LET level == Len(levels) - 1
  IN IF level <= MaxLevel
     THEN HierarchyLevelsOffByOne(B,
            Append(levels, IF down THEN ChildrenOf(B, levels[level + 1])
                                   ELSE ParentsOf(B, levels[level + 1])),
            down)
     ELSE levels

RECURSIVE HierarchyLevels(_, _, _)
HierarchyLevels(B, levels, down) ==
  LET level == Len(levels) - 1
  IN IF level < MaxLevel
     THEN HierarchyLevels(B,
            Append(levels, IF down THEN ChildrenOf(B, levels[level + 1])
                                   ELSE ParentsOf(B, levels[level + 1])),
            down)
     ELSE levels

BaseRows(B, brokerId) == {b \in DOMAIN B : b = brokerId}

\* the sequences an ORDER BY level may return, from index k to index stop
\* of the levels in steps of dir: rows of one level come in any order
RECURSIVE LevelOrders(_, _, _, _)
LevelOrders(L, k, stop, dir) ==
  LET here == Orderings(L[k])
  IN IF k = stop THEN here
     ELSE {h \o t : h \in here, t \in LevelOrders(L, k + dir, stop, dir)}

\* getDescendantBrokerIds: the set of values one call may return
\* (fail = the raw query throws)
getDescendantBrokerIds(B, brokerId, fail) ==
  IF Falsy(brokerId) THEN {<<>>}
  ELSE IF fail THEN {<<brokerId>>}
  ELSE LET levels == HierarchyLevels(B, <<BaseRows(B, brokerId)>>, TRUE)
       IN LevelOrders(levels, 1, Len(levels), 1)

\* getAncestorBrokerIds: ORDER BY level DESC
getAncestorBrokerIds(B, brokerId, fail) ==
  IF Falsy(brokerId) THEN {<<>>}
  ELSE IF fail THEN {<<brokerId>>}
  ELSE LET levels == HierarchyLevels(B, <<BaseRows(B, brokerId)>>, FALSE)
       IN LevelOrders(levels, Len(levels), 1, 0 - 1)

\* validateNoCycles without the parentId === childId test
validateNoCyclesNoSelfTest(B, parentId, childId, fail) ==
  IF Falsy(parentId) \/ Falsy(childId) THEN TRUE
  ELSE LET childDescendants == CHOOSE r \in getDescendantBrokerIds(B, childId, fail) : TRUE
       IN ~Includes(childDescendants, parentId)

\* validateNoCycles: getDescendantBrokerIds never throws (it catches and
\* returns [childId]), so the catch branch of validateNoCycles is not taken
validateNoCycles(B, parentId, childId, fail) ==
  IF Falsy(parentId) \/ Falsy(childId) THEN TRUE
  ELSE IF parentId = childId THEN FALSE
  ELSE LET childDescendants == CHOOSE r \in getDescendantBrokerIds(B, childId, fail) : TRUE
           wouldCreateCycle == Includes(childDescendants, parentId)
       IN ~wouldCreateCycle

\* canUserAccessBroker looking the target up among the ancestors
canUserAccessBrokerUpward(B, userBrokerId, targetBrokerId, fail) ==
  IF Falsy(userBrokerId) \/ Falsy(targetBrokerId) THEN FALSE
  ELSE IF userBrokerId = targetBrokerId THEN TRUE
  ELSE LET accessibleBrokerIds ==
             CHOOSE r \in getAncestorBrokerIds(B, userBrokerId, fail) : TRUE
       IN Includes(accessibleBrokerIds, targetBrokerId)

\* canUserAccessBroker without the identity shortcut, denying on a failed fetch
canUserAccessBrokerNoShortcut(B, userBrokerId, targetBrokerId, fail) ==
  IF Falsy(userBrokerId) \/ Falsy(targetBrokerId) THEN FALSE
  ELSE IF fail THEN FALSE
  ELSE LET accessibleBrokerIds ==
             CHOOSE r \in getDescendantBrokerIds(B, userBrokerId, fail) : TRUE
       IN Includes(accessibleBrokerIds, targetBrokerId)

\* canUserAccessBroker
canUserAccessBroker(B, userBrokerId, targetBrokerId, fail) ==
  IF Falsy(userBrokerId) \/ Falsy(targetBrokerId) THEN FALSE
  ELSE IF userBrokerId = targetBrokerId THEN TRUE
  ELSE LET accessibleBrokerIds ==
             CHOOSE r \in getDescendantBrokerIds(B, userBrokerId, fail) : TRUE
       IN Includes(accessibleBrokerIds, targetBrokerId)

-----------------------------------------------------------------------------
(* The hierarchy family: brokers 1..NumChain, the first k of them a chain   *)
(* (each parented to the previous), the others roots, and one more broker  *)
(* NumChain+1 that is a root or the child of any of them.  Every member is *)
(* a forest that register and acceptInvitation can build in id order.      *)

HierIds == 1..(NumChain + 1)

HierForest(k, p) ==
  [b \in HierIds |->
     [name |-> b,
      parentId |-> IF b = NumChain + 1 THEN p
                   ELSE IF b > 1 /\ b <= k THEN b - 1 ELSE Null]]

\* an id that no broker row has
GhostId == NumChain + 2

HierArgs == HierIds \cup {EmptyId, GhostId}

EmptyStore ==
  /\ profiles = <<>>
  /\ userRoles = {}
  /\ rolePermissions = {}
  /\ roles = {}
  /\ invitations = <<>>
  /\ authUsers = <<>>
  /\ now = 0
  /\ ticks = 0
  /\ reqs = <<>>

InitHier ==
  /\ \E k \in 1..NumChain, p \in {Null} \cup (1..NumChain) :
       brokers = HierForest(k, p)
  /\ EmptyStore
  /\ last = [op |-> "none"]

\* the observed call: one call is observed at a time, its arguments and its
\* return value are kept in last until the caller has consumed them
Idle == last.op = "none"

Return ==
  /\ ~Idle
  /\ last' = [op |-> "none"]
  /\ UNCHANGED storeVars

CallGetDescendantBrokerIds ==
  /\ Idle
  /\ \E id \in HierArgs, fail \in BOOLEAN :
       \E r \in getDescendantBrokerIds(brokers, id, fail) :
         /\ last' = [op |-> "getDescendantBrokerIds", a1 |-> id,
                     fail |-> fail, result |-> r]
         /\ UNCHANGED storeVars

CallGetAncestorBrokerIds ==
  /\ Idle
  /\ \E id \in HierArgs, fail \in BOOLEAN :
       \E r \in getAncestorBrokerIds(brokers, id, fail) :
         /\ last' = [op |-> "getAncestorBrokerIds", a1 |-> id,
                     fail |-> fail, result |-> r]
         /\ UNCHANGED storeVars

CallValidateNoCycles ==
  /\ Idle
  /\ \E p \in HierArgs, c \in HierArgs, fail \in BOOLEAN :
       /\ last' = [op |-> "validateNoCycles", a1 |-> p, a2 |-> c,
                   fail |-> fail,
                   result |-> validateNoCycles(brokers, p, c, fail)]
       /\ UNCHANGED storeVars

CallCanUserAccessBroker ==
  /\ Idle
  /\ \E u \in HierArgs, t \in HierArgs, fail \in BOOLEAN :
       /\ last' = [op |-> "canUserAccessBroker", a1 |-> u, a2 |-> t,
                   fail |-> fail,
                   result |-> canUserAccessBroker(brokers, u, t, fail)]
       /\ UNCHANGED storeVars

NextHier ==
  \/ CallGetDescendantBrokerIds
  \/ CallGetAncestorBrokerIds
  \/ CallValidateNoCycles
  \/ CallCanUserAccessBroker
  \/ Return

SpecHier == InitHier /\ [][NextHier]_vars

-----------------------------------------------------------------------------
(* Permission strings.  A string is a sequence of symbols: Colon is the    *)
(* character ':', every other symbol is a colon-free word.                 *)

Colon == ":"

Words == {"x", "own"}

\* the value of a destructured array element that is not there
Undefined == <<"undefined">>

\* !value for a string or undefined
JsFalsy(v) == v = <<>> \/ v = Undefined

\* String.prototype.split(':') : every colon separates, empty parts are kept
RECURSIVE SplitFrom(_, _, _, _)
SplitFrom(s, i, cur, parts) ==
  IF i > Len(s) THEN Append(parts, cur)
  ELSE IF s[i] = Colon THEN SplitFrom(s, i + 1, <<>>, Append(parts, cur))
  ELSE SplitFrom(s, i + 1, Append(cur, s[i]), parts)

Split(s) == SplitFrom(s, 1, <<>>, <<>>)

\* const [resource, action, scope] = ... : element i, undefined past the end
Destructure(parts, i) == IF i <= Len(parts) THEN parts[i] ELSE Undefined

\* some role held by the user carries the permission row (resource, action)
RoleGrants(UR, RP, userId, resource, action) ==
  \E ur \in UR :
    /\ ur.userId = userId
    /\ \E rp \in RP :
         /\ rp.roleId = ur.roleId
         /\ rp.resource = resource
         /\ rp.action = action

\* the role ids of the UserRole rows of a user
RoleIdsOf(UR, userId) == {ur.roleId : ur \in {r \in UR : r.userId = userId}}

\* the permission rows of the RolePermission rows of a role
PermissionsOf(RP, roleId) ==
  {[resource |-> rp.resource, action |-> rp.action] :
     rp \in {r \in RP : r.roleId = roleId}}

Returned(v) == [threw |-> FALSE, value |-> v]

Threw(e) == [threw |-> TRUE, error |-> e]

\* userHasPermission (fail = the userRole query throws; nothing catches it)
userHasPermission(UR, RP, userId, permission, fail) ==
  LET parts == Split(permission)
      resource == Destructure(parts, 1)
      action == Destructure(parts, 2)
  IN IF JsFalsy(resource) \/ JsFalsy(action)
     THEN Threw("Invalid permission format")
     ELSE IF fail THEN Threw("persistence")
     ELSE Returned(RoleGrants(UR, RP, userId, resource, action))

\* userHasPermissionInBroker with the ':own' branch consulting the hierarchy
userHasPermissionInBrokerOwnOrBelow(P, UR, RP, B, userId, permission, targetBrokerId, failAt) ==
  LET parts == Split(permission)
      resource == Destructure(parts, 1)
      action == Destructure(parts, 2)
      scope == Destructure(parts, 3)
  IN IF JsFalsy(resource) \/ JsFalsy(action) THEN FALSE
     ELSE IF failAt = "profile" THEN FALSE
     ELSE IF userId \notin DOMAIN P THEN FALSE
     ELSE IF ~RoleGrants(UR, RP, userId, resource, action) THEN FALSE
     ELSE IF JsFalsy(scope) /\ Falsy(P[userId].brokerId) THEN TRUE
     ELSE IF JsFalsy(scope) \/ scope = <<"own">>
          THEN canUserAccessBroker(B, P[userId].brokerId, targetBrokerId,
                                   failAt = "hierarchy")
     ELSE FALSE

\* userHasPermissionInBroker without the system-user short circuit
userHasPermissionInBrokerNoSystemUser(P, UR, RP, B, userId, permission, targetBrokerId, failAt) ==
  LET parts == Split(permission)
      resource == Destructure(parts, 1)
      action == Destructure(parts, 2)
      scope == Destructure(parts, 3)
  IN IF JsFalsy(resource) \/ JsFalsy(action) THEN FALSE
     ELSE IF failAt = "profile" THEN FALSE
     ELSE IF userId \notin DOMAIN P THEN FALSE
     ELSE IF ~RoleGrants(UR, RP, userId, resource, action) THEN FALSE
     ELSE IF JsFalsy(scope)
          THEN canUserAccessBroker(B, P[userId].brokerId, targetBrokerId,
                                   failAt = "hierarchy")
     ELSE IF scope = <<"own">> THEN P[userId].brokerId = targetBrokerId
     ELSE FALSE

\* userHasPermissionInBroker: every throw inside the try (the format error,
\* a failed profile query) is caught and turned into false; failAt names the
\* query that throws, if any
userHasPermissionInBroker(P, UR, RP, B, userId, permission, targetBrokerId, failAt) ==
  LET parts == Split(permission)
      resource == Destructure(parts, 1)
      action == Destructure(parts, 2)
      scope == Destructure(parts, 3)
  IN IF JsFalsy(resource) \/ JsFalsy(action) THEN FALSE
     ELSE IF failAt = "profile" THEN FALSE
     ELSE IF userId \notin DOMAIN P THEN FALSE
     ELSE LET userProfile == P[userId]
              hasBasePermission == RoleGrants(UR, RP, userId, resource, action)
          IN IF ~hasBasePermission THEN FALSE
             ELSE IF JsFalsy(scope)
                  THEN IF Falsy(userProfile.brokerId) THEN TRUE
                       ELSE canUserAccessBroker(B, userProfile.brokerId,
                                                targetBrokerId,
                                                failAt = "hierarchy")
             ELSE IF scope = <<"own">>
                  THEN userProfile.brokerId = targetBrokerId
             ELSE FALSE

\* getEffectiveBrokerIds: the possible results (the order within a level of
\* the hierarchy is the database's); every throw inside the try is caught
\* and turned into the empty list
getEffectiveBrokerIds(P, UR, RP, B, userId, permission, failAt) ==
  LET parts == Split(permission)
      resource == Destructure(parts, 1)
      action == Destructure(parts, 2)
      scope == Destructure(parts, 3)
  IN IF JsFalsy(resource) \/ JsFalsy(action) THEN {<<>>}
     ELSE IF failAt = "profile" THEN {<<>>}
     ELSE IF userId \notin DOMAIN P THEN {<<>>}
     ELSE LET userProfile == P[userId]
              hasPermission == RoleGrants(UR, RP, userId, resource, action)
          IN IF ~hasPermission THEN {<<>>}
             ELSE IF Falsy(userProfile.brokerId) THEN {<<>>}
             ELSE IF scope = <<"own">> THEN {<<userProfile.brokerId>>}
             ELSE getDescendantBrokerIds(B, userProfile.brokerId,
                                         failAt = "hierarchy")

\* `${permission.resource}:${permission.action}`
PermissionString(row) == row.resource \o <<Colon>> \o row.action

\* userRoles.forEach(userRole => userRole.role.rolePermissions.forEach(...)):
\* the (role, permission row) pairs in the order they are visited
RECURSIVE Visited(_, _)
Visited(roleOrder, rowOrder) ==
  IF roleOrder = <<>> THEN <<>>
  ELSE LET r == Head(roleOrder)
       IN [i \in 1..Len(rowOrder[r]) |-> [role |-> r, row |-> rowOrder[r][i]]]
            \o Visited(Tail(roleOrder), rowOrder)

\* the loop body without the permissionsSet.has test
RECURSIVE CollectedNoDedup(_, _, _, _)
CollectedNoDedup(visited, i, permissions, detailed) ==
  IF i > Len(visited)
  THEN [permissions |-> permissions, detailedPermissions |-> detailed]
  ELSE LET str == PermissionString(visited[i].row)
       IN CollectedNoDedup(visited, i + 1, Append(permissions, str),
                Append(detailed, [resource |-> visited[i].row.resource,
                                  action |-> visited[i].row.action,
                                  fromRole |-> visited[i].role]))

\* the loop body: a string not yet in permissionsSet is added, with the role
\* it was first seen in
RECURSIVE Collected(_, _, _, _)
Collected(visited, i, permissions, detailed) ==
  IF i > Len(visited)
  THEN [permissions |-> permissions, detailedPermissions |-> detailed]
  ELSE LET str == PermissionString(visited[i].row)
       IN IF Includes(permissions, str)
          THEN Collected(visited, i + 1, permissions, detailed)
          ELSE Collected(visited, i + 1, Append(permissions, str),
                  Append(detailed, [resource |-> visited[i].row.resource,
                                    action |-> visited[i].row.action,
                                    fromRole |-> visited[i].role]))

\* PermissionService.getUserPermissions; roleOrder is the order in which
\* findMany returns the user's UserRole rows, rowOrder[r] the order of the
\* rolePermissions of role r (fail = the query throws; nothing catches it)
getUserPermissions(roleOrder, rowOrder, fail) ==
  IF fail THEN Threw("persistence")
  ELSE LET c == Collected(Visited(roleOrder, rowOrder), 1, <<>>, <<>>)
       IN Returned([permissions |-> c.permissions,
                    detailedPermissions |-> c.detailedPermissions,
                    roleCount |-> Len(roleOrder)])

\* the UserRole rows of accessible users whose role carries the permission
UserRolesWithPermission(UR, RP, accessibleUserIds, resource, action) ==
  {ur \in UR :
     /\ ur.userId \in accessibleUserIds
     /\ \E rp \in RP :
          rp.roleId = ur.roleId /\ rp.resource = resource /\ rp.action = action}

\* AuthorizationService.filterUsersByPermission: the possible outcomes, one
\* per order in which userRole.findMany returns its rows (fail = a query
\* throws; nothing catches it)
filterUsersByPermission(P, UR, RP, userIds, permission, accessibleBrokerIds, fail) ==
  LET parts == Split(permission)
      resource == Destructure(parts, 1)
      action == Destructure(parts, 2)
      accessibleUserIds ==
        {u \in DOMAIN P : /\ Includes(userIds, u)
                          /\ Includes(accessibleBrokerIds, P[u].brokerId)}
      usersWithPermission ==
        Orderings(UserRolesWithPermission(UR, RP, accessibleUserIds,
                                          resource, action))
      Outcome(rows) ==
        LET authorizedUserIds == [i \in 1..Len(rows) |-> rows[i].userId]
            unauthorizedUserIds ==
              SelectSeq(userIds, LAMBDA id : ~Includes(authorizedUserIds, id))
        IN Returned([authorizedUsers |-> authorizedUserIds,
                     unauthorizedUsers |-> unauthorizedUserIds,
                     totalUsers |-> Len(userIds),
                     authorizedCount |-> Len(authorizedUserIds)])
  IN IF JsFalsy(resource) \/ JsFalsy(action)
     THEN {Threw("Invalid permission format")}
     ELSE IF fail THEN {Threw("persistence")}
     ELSE {Outcome(rows) : rows \in usersWithPermission}

-----------------------------------------------------------------------------
(* The permission family: a small forest (a chain prefix, the rest roots), *)
(* one user who has a broker of it or none, two roles of which the user    *)
(* holds any subset, and permission rows drawn from a pool.                *)

SmallIds == 1..NumSmall

SmallForest(k) ==
  [b \in SmallIds |->
     [name |-> b, parentId |-> IF b > 1 /\ b <= k THEN b - 1 ELSE Null]]

\* 'x:x' (like clients:read), 'x:x:own' (clients:read:own) and
\* 'x:x:x' (users:assign:roles) as rows (resource, action)
RowPool ==
  {[resource |-> <<"x">>, action |-> <<"x">>],
   [resource |-> <<"x">>, action |-> <<"x", Colon, "own">>],
   [resource |-> <<"x">>, action |-> <<"x", Colon, "x">>]}

RowsOfRole(r, rows) ==
  {[roleId |-> r, resource |-> row.resource, action |-> row.action] : row \in rows}

\* the user with a profile, and a user id without one
UserId == 1

NoUserId == 2

InitPerm ==
  /\ \E k \in SmallIds : brokers = SmallForest(k)
  /\ \E b \in {Null} \cup SmallIds :
       profiles = (UserId :> [brokerId |-> b, cedulaRuc |-> 1])
  /\ roles = (1 :> [name |-> "broker_admin"]) @@ (2 :> [name |-> "agent"])
  /\ \E held \in SUBSET {1, 2} :
       userRoles = {[userId |-> UserId, roleId |-> r, assignedBy |-> UserId] : r \in held}
  /\ \E rows \in SUBSET RowPool :
       rolePermissions =
         RowsOfRole(1, {[resource |-> <<"x">>, action |-> <<"x">>]})
           \cup RowsOfRole(2, rows)
  /\ invitations = <<>>
  /\ authUsers = (UserId :> [email |-> 1])
  /\ now = 0
  /\ ticks = 0
  /\ reqs = <<>>
  /\ last = [op |-> "none"]

\* the strings of 1..MaxTokens tokens joined by colons, a token being empty
\* or one word
RECURSIVE TokenLists(_)
TokenLists(n) ==
  IF n = 0 THEN {<<>>}
  ELSE {Append(ts, <<w>>) : ts \in TokenLists(n - 1), w \in Words}
         \cup {Append(ts, <<>>) : ts \in TokenLists(n - 1)}

RECURSIVE Join(_)
Join(ts) ==
  IF Len(ts) = 0 THEN <<>>
  ELSE IF Len(ts) = 1 THEN ts[1]
  ELSE ts[1] \o <<Colon>> \o Join(Tail(ts))

PermStrings == {Join(ts) : ts \in UNION {TokenLists(n) : n \in 1..MaxTokens}}

PermTargets == SmallIds \cup {EmptyId}

CallUserHasPermission ==
  /\ Idle
  /\ \E u \in {UserId, NoUserId}, perm \in PermStrings, fail \in BOOLEAN :
       /\ last' = [op |-> "userHasPermission", a1 |-> u, perm |-> perm,
                   fail |-> fail,
                   result |-> userHasPermission(userRoles, rolePermissions,
                                                u, perm, fail)]
       /\ UNCHANGED storeVars

CallUserHasPermissionInBroker ==
  /\ Idle
  /\ \E u \in {UserId, NoUserId}, perm \in PermStrings, t \in PermTargets,
        failAt \in {"none", "profile", "hierarchy"} :
       /\ last' = [op |-> "userHasPermissionInBroker", a1 |-> u,
                   perm |-> perm, a2 |-> t, failAt |-> failAt,
                   result |-> userHasPermissionInBroker(profiles, userRoles,
                                rolePermissions, brokers, u, perm, t, failAt)]
       /\ UNCHANGED storeVars

CallGetEffectiveBrokerIds ==
  /\ Idle
  /\ \E u \in {UserId, NoUserId}, perm \in PermStrings,
        failAt \in {"none", "profile", "hierarchy"} :
       \E ids \in getEffectiveBrokerIds(profiles, userRoles, rolePermissions,
                                        brokers, u, perm, failAt) :
         /\ last' = [op |-> "getEffectiveBrokerIds", a1 |-> u, perm |-> perm,
                     failAt |-> failAt, result |-> ids]
         /\ UNCHANGED storeVars

CallGetUserPermissions ==
  /\ Idle
  /\ \E u \in {UserId, NoUserId}, fail \in BOOLEAN :
       \E roleOrder \in Orderings(RoleIdsOf(userRoles, u)),
          o1 \in Orderings(PermissionsOf(rolePermissions, 1)),
          o2 \in Orderings(PermissionsOf(rolePermissions, 2)) :
         /\ last' = [op |-> "getUserPermissions", a1 |-> u, fail |-> fail,
                     roleOrder |-> roleOrder,
                     result |-> getUserPermissions(roleOrder,
                                                   (1 :> o1) @@ (2 :> o2), fail)]
         /\ UNCHANGED storeVars

\* the userIds lists passed in: up to two ids, repeats included
UserIdLists ==
  {<<>>} \cup {<<u>> : u \in {UserId, NoUserId}}
         \cup {<<u, v>> : u, v \in {UserId, NoUserId}}

CallFilterUsersByPermission ==
  /\ Idle
  /\ \E userIds \in UserIdLists,
        perm \in {<<"x", Colon, "x">>, <<"x", Colon, "x", Colon, "own">>, <<"x">>},
        acc \in UNION {Orderings(S) : S \in SUBSET SmallIds},
        fail \in BOOLEAN :
       \E res \in filterUsersByPermission(profiles, userRoles, rolePermissions,
                                          userIds, perm, acc, fail) :
         /\ last' = [op |-> "filterUsersByPermission", userIds |-> userIds,
                     perm |-> perm, acc |-> acc, fail |-> fail, result |-> res]
         /\ UNCHANGED storeVars

NextPerm ==
  \/ CallUserHasPermission
  \/ CallUserHasPermissionInBroker
  \/ CallGetEffectiveBrokerIds
  \/ CallGetUserPermissions
  \/ CallFilterUsersByPermission
  \/ Return

SpecPerm == InitPerm /\ [][NextPerm]_vars

-----------------------------------------------------------------------------
(* The store, and the register and invitation flows that write to it *)

Procs == 1..NumProcs

Emails == 1..NumEmails

BrokerNames == 1..NumNames

Cedulas == 1..NumCedulas

\* new Date(Date.now() + 7 * 24 * 60 * 60 * 1000)
InvitationTtl == 7 * 24 * 60 * 60 * 1000

\* the seeded roles
SeedRoles ==
  (1 :> [name |-> "broker_admin"]) @@ (2 :> [name |-> "employee"])
    @@ (3 :> [name |-> "agent"])

\* role.findUnique({ where: { name } }) : the id, Null when there is none
RoleIdByName(R, name) ==
  IF \E r \in DOMAIN R : R[r].name = name
  THEN CHOOSE r \in DOMAIN R : R[r].name = name
  ELSE Null

\* the unique index on brokers.name never rejects
BrokerNameTakenNever(B, name) == FALSE

\* name String @unique
BrokerNameTaken(B, name) == \E b \in DOMAIN B : B[b].name = name

\* cedulaRuc String @unique
CedulaTaken(P, cedulaRuc) == \E u \in DOMAIN P : P[u].cedulaRuc = cedulaRuc

\* the auth provider has a user with this e-mail
EmailRegistered(A, email) == \E u \in DOMAIN A : A[u].email = email

AddRow(T, id, row) == T @@ (id :> row)

RemoveRow(T, id) == [k \in DOMAIN T \ {id} |-> T[k]]

\* an id (a uuid) that neither an auth user nor a profile has
FreshUserId(A, P) ==
  CHOOSE id \in 1..(Cardinality(DOMAIN A \cup DOMAIN P) + 1) :
    id \notin DOMAIN A \cup DOMAIN P

\* supabase.auth.signUp creates the user id
SignedUp(A, id, email) == AddRow(A, id, [email |-> email])

\* supabaseAdmin.auth.admin.deleteUser
DeletedUser(A, id) == RemoveRow(A, id)

IdleReq == [pc |-> "idle"]

\* the store after the seed script: the three roles, nobody registered
Init ==
  /\ brokers = <<>>
  /\ profiles = <<>>
  /\ userRoles = {}
  /\ rolePermissions = {}
  /\ roles = SeedRoles
  /\ invitations = <<>>
  /\ authUsers = <<>>
  /\ now = 0
  /\ ticks = 0
  /\ reqs = [p \in Procs |-> IdleReq]
  /\ last = [op |-> "none"]

\* time passes: by the life time of an invitation, or a millisecond more
Tick ==
  /\ ticks < MaxTicks
  /\ \E d \in {InvitationTtl, InvitationTtl + 1} : now' = now + d
  /\ ticks' = ticks + 1
  /\ UNCHANGED <<brokers, profiles, userRoles, rolePermissions, roles,
                 invitations, authUsers, reqs, last>>

\* what goes wrong in a call to register, if anything: the provider refuses
\* the sign-up, the session token fails the sub check, a query inside the
\* transaction throws, or a read after the transaction throws
RegisterFaults == {"none", "signUp", "jwt", "tx", "reads"}

\* AuthService.register.  The transaction is atomic: it commits the broker,
\* the profile and the role assignment together or nothing.  A call that
\* throws leaves its error with the caller; the store keeps what is below.
Register ==
  \E email \in Emails, brokerName \in BrokerNames, cedulaRuc \in Cedulas,
     fault \in RegisterFaults :
    LET userId == FreshUserId(authUsers, profiles)
        brokerId == Len(brokers) + 1
        newBroker == [name |-> brokerName, parentId |-> Null, via |-> "register"]
        brokerAdminRole == RoleIdByName(roles, "broker_admin")
        signUpFails == fault = "signUp" \/ EmailRegistered(authUsers, email)
        txFails == \/ fault = "tx"
                   \/ BrokerNameTaken(brokers, brokerName)
                   \/ CedulaTaken(profiles, cedulaRuc)
                   \/ brokerAdminRole = Null
    IN /\ userId <= MaxAuthUsers
       /\ IF signUpFails \/ fault = "jwt" \/ txFails
          THEN \* no user, or the user is deleted again and the transaction
               \* is not run or rolled back
               UNCHANGED <<brokers, profiles, userRoles, authUsers>>
          ELSE /\ brokers' = Append(brokers, newBroker)
               /\ profiles' = AddRow(profiles, userId,
                                     [brokerId |-> brokerId, cedulaRuc |-> cedulaRuc])
               /\ userRoles' = userRoles \cup
                    {[userId |-> userId, roleId |-> brokerAdminRole,
                      assignedBy |-> userId]}
               /\ authUsers' =
                    IF fault = "reads"
                    THEN \* the catch deletes the auth user after the commit
                         DeletedUser(SignedUp(authUsers, userId, email), userId)
                    ELSE SignedUp(authUsers, userId, email)
       /\ UNCHANGED <<rolePermissions, roles, invitations, now, ticks, reqs, last>>

\* the error sendInvitation throws before it creates the row, "none" if none
SendInvitationError(invitedBy, email) ==
  LET sender == profiles[invitedBy]
      canInvite ==
        \E ur \in userRoles :
          /\ ur.userId = invitedBy
          /\ ur.roleId \in DOMAIN roles
          /\ roles[ur.roleId].name \in {"broker_admin", "employee"}
      existingInvitation ==
        \E i \in DOMAIN invitations :
          /\ invitations[i].email = email
          /\ invitations[i].status = "pending"
          /\ invitations[i].expiresAt > now
  IN IF invitedBy \notin DOMAIN profiles THEN "Sender profile not found"
     ELSE IF Falsy(sender.brokerId) \/ sender.brokerId \notin DOMAIN brokers
     THEN "Cannot send invitations without broker context"
     ELSE IF ~canInvite THEN "Unauthorized to send invitations"
     ELSE IF existingInvitation
     THEN "A pending invitation for this email already exists"
     ELSE "none"

\* InvitationService.sendInvitation up to the duplicate check: the reads and
\* validations before the row is created; a call that throws ends here
SendInvitationCheckUpTo(p, cap) ==
  \E invitedBy \in 1..MaxAuthUsers, email \in Emails,
     childBrokerName \in BrokerNames :
    /\ reqs[p].pc = "idle"
    /\ Len(invitations) < cap
    /\ SendInvitationError(invitedBy, email) = "none"
    /\ reqs' = [reqs EXCEPT ![p] =
                  [pc |-> "send_create", invitedBy |-> invitedBy,
                   email |-> email, childBrokerName |-> childBrokerName]]
    /\ UNCHANGED <<brokers, profiles, userRoles, rolePermissions, roles,
                   invitations, authUsers, now, ticks, last>>

SendInvitationCheck(p) == SendInvitationCheckUpTo(p, MaxInvitations)

\* sendInvitation: prisma.invitation.create, the token being the row's key
SendInvitationCreateUpTo(p, cap) ==
  /\ reqs[p].pc = "send_create"
  /\ Len(invitations) < cap
  /\ invitations' = Append(invitations,
       [email |-> reqs[p].email, invitedBy |-> reqs[p].invitedBy,
        childBrokerName |-> reqs[p].childBrokerName,
        status |-> "pending", expiresAt |-> now + InvitationTtl])
  /\ reqs' = [reqs EXCEPT ![p] = IdleReq]
  /\ UNCHANGED <<brokers, profiles, userRoles, rolePermissions, roles,
                 authUsers, now, ticks, last>>

SendInvitationCreate(p) == SendInvitationCreateUpTo(p, MaxInvitations)

\* the validations of acceptInvitation without the expiry test
AcceptInvitationErrorNoExpiry(token, cedulaRuc) ==
  LET invite == invitations[token]
      sender == profiles[invite.invitedBy]
  IN IF token \notin DOMAIN invitations THEN "Invitation not found"
     ELSE IF invite.status # "pending"
     THEN "Invitation has already been processed"
     ELSE IF Falsy(sender.brokerId) \/ sender.brokerId \notin DOMAIN brokers
     THEN "Invitation sender has no broker context"
     ELSE IF CedulaTaken(profiles, cedulaRuc)
     THEN "Cedula/RUC is already registered"
     ELSE "none"

\* the error acceptInvitation throws before its transaction, "none" if none
AcceptInvitationError(token, cedulaRuc) ==
  LET invite == invitations[token]
      sender == profiles[invite.invitedBy]
  IN IF token \notin DOMAIN invitations THEN "Invitation not found"
     ELSE IF invite.status # "pending"
     THEN "Invitation has already been processed"
     ELSE IF invite.expiresAt < now THEN "Invitation has expired"
     ELSE IF Falsy(sender.brokerId) \/ sender.brokerId \notin DOMAIN brokers
     THEN "Invitation sender has no broker context"
     ELSE IF CedulaTaken(profiles, cedulaRuc)
     THEN "Cedula/RUC is already registered"
     ELSE "none"

\* InvitationService.acceptInvitation up to the transaction: the invitation
\* (with its sender and the sender's broker) is read and validated, and the
\* cedula is looked up, outside the transaction; a call that throws ends here
AcceptInvitationCheck(p) ==
  \E token \in 1..MaxInvitations, cedulaRuc \in Cedulas :
    /\ reqs[p].pc = "idle"
    /\ AcceptInvitationError(token, cedulaRuc) = "none"
    /\ reqs' = [reqs EXCEPT ![p] =
                  [pc |-> "accept_tx", token |-> token,
                   cedulaRuc |-> cedulaRuc,
                   email |-> invitations[token].email,
                   invitedBy |-> invitations[token].invitedBy,
                   childBrokerName |-> invitations[token].childBrokerName,
                   parentBrokerId |-> profiles[invitations[token].invitedBy].brokerId]]
    /\ UNCHANGED <<brokers, profiles, userRoles, rolePermissions, roles,
                   invitations, authUsers, now, ticks, last>>

\* what goes wrong in the transaction of acceptInvitation, if anything: the
\* provider refuses the sign-up, or a query of the transaction throws
AcceptFaults == {"none", "signUp", "tx"}

\* tx.broker.create with parentId = invite.invitedByUser.brokerId, but the
\* parent left out
ChildBrokerDetached(name, parentBrokerId) ==
  [name |-> name, parentId |-> Null, via |-> "invitation"]

\* tx.broker.create({ data: { name: invite.childBrokerName,
\*                            parentId: invite.invitedByUser.brokerId } })
ChildBroker(name, parentBrokerId) ==
  [name |-> name, parentId |-> parentBrokerId, via |-> "invitation"]

\* the status update left out
MarkAcceptedNot(I, token) == I

\* tx.invitation.update({ where: { id }, data: { status: 'accepted' } })
MarkAccepted(I, token) == [I EXCEPT ![token].status = "accepted"]

\* a callback that throws with its writes kept
RolledBackNot(before, written) == written

\* prisma.$transaction: when the callback throws, the table is as before
\* the transaction, whatever the callback had written to it
RolledBack(before, written) == before

\* acceptInvitation: the $transaction callback.  The auth user is signed up
\* first; the broker, the profile, the agent role assignment and the status
\* update commit together or not at all.  Nothing removes the auth user when
\* the transaction throws after the sign-up.
AcceptInvitationTx(p) ==
  \E fault \in AcceptFaults :
    LET req == reqs[p]
        userId == FreshUserId(authUsers, profiles)
        childBrokerId == Len(brokers) + 1
        childBroker == ChildBroker(req.childBrokerName, req.parentBrokerId)
        brokerCreateFails == \/ BrokerNameTaken(brokers, req.childBrokerName)
                             \/ req.parentBrokerId \notin DOMAIN brokers
        agentRole == RoleIdByName(roles, "agent")
        signUpFails == fault = "signUp" \/ EmailRegistered(authUsers, req.email)
        txFails == \/ fault = "tx"
                   \/ brokerCreateFails
                   \/ CedulaTaken(profiles, req.cedulaRuc)
                   \/ agentRole = Null
    IN /\ req.pc = "accept_tx"
       /\ signUpFails \/ userId <= MaxAuthUsers
       /\ reqs' = [reqs EXCEPT ![p] = IdleReq]
       /\ IF signUpFails
          THEN UNCHANGED <<brokers, profiles, userRoles, invitations, authUsers>>
          ELSE /\ authUsers' = SignedUp(authUsers, userId, req.email)
               /\ IF txFails
                  THEN \* broker.create is the first write of the callback
                       /\ brokers' =
                            RolledBack(brokers,
                                       IF brokerCreateFails THEN brokers
                                       ELSE Append(brokers, childBroker))
                       /\ UNCHANGED <<profiles, userRoles, invitations>>
                  ELSE /\ brokers' = Append(brokers, childBroker)
                       /\ profiles' = AddRow(profiles, userId,
                                   [brokerId |-> childBrokerId,
                                    cedulaRuc |-> req.cedulaRuc])
                       /\ userRoles' = userRoles \cup
                            {[userId |-> userId, roleId |-> agentRole,
                              assignedBy |-> req.invitedBy]}
                       /\ invitations' = MarkAccepted(invitations, req.token)
       /\ UNCHANGED <<rolePermissions, roles, now, ticks, last>>

Next ==
  \/ Register
  \/ \E p \in Procs : SendInvitationCheck(p)
  \/ \E p \in Procs : SendInvitationCreate(p)
  \/ \E p \in Procs : AcceptInvitationCheck(p)
  \/ \E p \in Procs : AcceptInvitationTx(p)
  \/ Tick

Spec == Init /\ [][Next]_vars

-----------------------------------------------------------------------------
(* Concurrent sendInvitation calls of one registered broker admin *)

\* Invitation rows the store may hold while only invitations are sent
MaxPending == 2

\* the store after the seed script and one successful register
InitSend ==
  /\ brokers = <<[name |-> 1, parentId |-> Null, via |-> "register"]>>
  /\ profiles = (1 :> [brokerId |-> 1, cedulaRuc |-> 1])
  /\ userRoles = {[userId |-> 1, roleId |-> RoleIdByName(SeedRoles, "broker_admin"),
                   assignedBy |-> 1]}
  /\ rolePermissions = {}
  /\ roles = SeedRoles
  /\ invitations = <<>>
  /\ authUsers = (1 :> [email |-> 1])
  /\ now = 0
  /\ ticks = 0
  /\ reqs = [p \in Procs |-> IdleReq]
  /\ last = [op |-> "none"]

NextSend ==
  \/ \E p \in Procs : SendInvitationCheckUpTo(p, MaxPending)
  \/ \E p \in Procs : SendInvitationCreateUpTo(p, MaxPending)
  \/ Tick

SpecSend == InitSend /\ [][NextSend]_vars

\* the store after the seed script, one register and any role administration
\* on the registered user: the user holds any set of the seeded roles
InitInvite ==
  /\ brokers = <<[name |-> 1, parentId |-> Null, via |-> "register"]>>
  /\ profiles = (1 :> [brokerId |-> 1, cedulaRuc |-> 1])
  /\ \E held \in SUBSET DOMAIN SeedRoles :
       userRoles = {[userId |-> 1, roleId |-> r, assignedBy |-> 1] : r \in held}
  /\ rolePermissions = {}
  /\ roles = SeedRoles
  /\ invitations = <<>>
  /\ authUsers = (1 :> [email |-> 1])
  /\ now = 0
  /\ ticks = 0
  /\ reqs = [p \in Procs |-> IdleReq]
  /\ last = [op |-> "none"]

SpecInvite == InitInvite /\ [][NextSend]_vars

-----------------------------------------------------------------------------
(* Role replacement (UserRoleService.replaceUserRoles and                  *)
(* RoleService.replaceRolePermissions) with a concurrent reader            *)

\* a role id no Role row has
NoRoleId == 4

\* the permission rows a role may be given
PermissionPool ==
  {[resource |-> <<"x">>, action |-> <<"x">>],
   [resource |-> <<"x">>, action |-> <<"x", Colon, "own">>]}

\* UserRoleService.getUserRoles: the roles of the user's UserRole rows
getUserRoles(UR, userId) == RoleIdsOf(UR, userId)

\* tx.userRole.deleteMany({ where: { userId } })
UserRolesDeleted(UR, userId) == {ur \in UR : ur.userId # userId}

\* tx.userRole.createMany: one row per role id
UserRolesCreated(userId, roleIds, assignedBy) ==
  {[userId |-> userId, roleId |-> r, assignedBy |-> assignedBy] : r \in roleIds}

\* tx.rolePermission.deleteMany({ where: { roleId } })
RolePermissionsDeleted(RP, roleId) == {rp \in RP : rp.roleId # roleId}

\* the store after the seed script and one successful register, the user
\* holding one or more roles and the roles carrying some permissions
InitReplace ==
  /\ brokers = <<[name |-> 1, parentId |-> Null, via |-> "register"]>>
  /\ profiles = (UserId :> [brokerId |-> 1, cedulaRuc |-> 1])
  /\ \E held \in SUBSET (DOMAIN SeedRoles) \ {{}} :
       userRoles = UserRolesCreated(UserId, held, UserId)
  /\ \E rows \in SUBSET PermissionPool :
       rolePermissions = RowsOfRole(1, rows)
  /\ roles = SeedRoles
  /\ invitations = <<>>
  /\ authUsers = (UserId :> [email |-> 1])
  /\ now = 0
  /\ ticks = 0
  /\ reqs = [p \in Procs |-> IdleReq]
  /\ last = [op |-> "none"]

\* the error replaceUserRoles throws before its transaction, "none" if none;
\* passed tells whether the optional argument allowedBrokerIds is there
ReplaceUserRolesError(userId, roleIds, passed, allowedBrokerIds) ==
  IF userId \notin DOMAIN profiles THEN "User not found"
  ELSE IF /\ passed
          /\ ~Falsy(profiles[userId].brokerId)
          /\ ~Includes(allowedBrokerIds, profiles[userId].brokerId)
  THEN "Access denied"
  ELSE IF ~(roleIds \subseteq DOMAIN roles) THEN "One or more roles not found"
  ELSE "none"

\* replaceUserRoles up to the transaction: the user, the broker access and
\* the roles are checked; a call that throws ends here.  The replacement set
\* is not empty.
ReplaceUserRolesCheck(p) ==
  \E userId \in {UserId, NoUserId},
     roleIds \in SUBSET (DOMAIN SeedRoles \cup {NoRoleId}) \ {{}},
     passed \in BOOLEAN, allowedBrokerIds \in {<<>>, <<1>>} :
    /\ reqs[p].pc = "idle"
    /\ ReplaceUserRolesError(userId, roleIds, passed, allowedBrokerIds) = "none"
    /\ reqs' = [reqs EXCEPT ![p] =
                  [pc |-> "replace_roles_tx", userId |-> userId,
                   roleIds |-> roleIds, assignedBy |-> UserId]]
    /\ UNCHANGED <<brokers, profiles, userRoles, rolePermissions, roles,
                   invitations, authUsers, now, ticks, last>>

\* replaceUserRoles: the $transaction callback, deleteMany then createMany;
\* when createMany throws (insertFails) the transaction is rolled back
ReplaceUserRolesTx(p) ==
  \E insertFails \in BOOLEAN :
    LET req == reqs[p]
        deleted == UserRolesDeleted(userRoles, req.userId)
        created == UserRolesCreated(req.userId, req.roleIds, req.assignedBy)
    IN /\ req.pc = "replace_roles_tx"
       /\ userRoles' = IF insertFails THEN RolledBack(userRoles, deleted)
                       ELSE deleted \cup created
       /\ reqs' = [reqs EXCEPT ![p] = IdleReq]
       /\ UNCHANGED <<brokers, profiles, rolePermissions, roles,
                      invitations, authUsers, now, ticks, last>>

\* the error replaceRolePermissions throws before its transaction
ReplaceRolePermissionsError(roleId, permissionIds) ==
  IF roleId \notin DOMAIN roles THEN "Role not found"
  ELSE IF ~(permissionIds \subseteq PermissionPool)
  THEN "One or more permissions not found"
  ELSE "none"

\* replaceRolePermissions up to the transaction
ReplaceRolePermissionsCheck(p) ==
  \E roleId \in {1, NoRoleId}, permissionIds \in SUBSET PermissionPool :
    /\ reqs[p].pc = "idle"
    /\ ReplaceRolePermissionsError(roleId, permissionIds) = "none"
    /\ reqs' = [reqs EXCEPT ![p] =
                  [pc |-> "replace_permissions_tx", roleId |-> roleId,
                   permissionIds |-> permissionIds]]
    /\ UNCHANGED <<brokers, profiles, userRoles, rolePermissions, roles,
                   invitations, authUsers, now, ticks, last>>

\* replaceRolePermissions: the $transaction callback
ReplaceRolePermissionsTx(p) ==
  \E insertFails \in BOOLEAN :
    LET req == reqs[p]
        deleted == RolePermissionsDeleted(rolePermissions, req.roleId)
        created == RowsOfRole(req.roleId, req.permissionIds)
    IN /\ req.pc = "replace_permissions_tx"
       /\ rolePermissions' = IF insertFails
                             THEN RolledBack(rolePermissions, deleted)
                             ELSE deleted \cup created
       /\ reqs' = [reqs EXCEPT ![p] = IdleReq]
       /\ UNCHANGED <<brokers, profiles, userRoles, roles,
                      invitations, authUsers, now, ticks, last>>

\* a concurrent reader: getUserRoles(userId) on the committed store
CallGetUserRoles ==
  /\ Idle
  /\ last' = [op |-> "getUserRoles", a1 |-> UserId,
              result |-> getUserRoles(userRoles, UserId)]
  /\ UNCHANGED storeVars

NextReplace ==
  \/ \E p \in Procs : ReplaceUserRolesCheck(p)
  \/ \E p \in Procs : ReplaceUserRolesTx(p)
  \/ \E p \in Procs : ReplaceRolePermissionsCheck(p)
  \/ \E p \in Procs : ReplaceRolePermissionsTx(p)
  \/ CallGetUserRoles
  \/ Return

SpecReplace == InitReplace /\ [][NextReplace]_vars

-----------------------------------------------------------------------------
\* Role administration: RoleService.deleteRole and the UserRoleService calls
\* that add and remove UserRole rows, as concurrent requests.

\* the user whose roles are administered; the caller is UserId
RoleTargetId == 2

\* the roles that are assigned, removed and deleted
AdminRoleIds == {2, 3}

\* the optional argument allowedBrokerIds: absent, or a list of brokers
BrokerArgs ==
  {[passed |-> FALSE, allowedBrokerIds |-> <<>>],
   [passed |-> TRUE, allowedBrokerIds |-> <<>>],
   [passed |-> TRUE, allowedBrokerIds |-> <<1>>]}

\* the store after the seed script: the caller in broker 1, the target in
\* broker 1, in broker 2 or without broker and holding any of the roles
InitRoles ==
  /\ brokers = <<[name |-> 1, parentId |-> Null, via |-> "register"],
                 [name |-> 2, parentId |-> Null, via |-> "register"]>>
  /\ \E b \in {Null, 1, 2} :
       profiles = (UserId :> [brokerId |-> 1, cedulaRuc |-> 1])
                    @@ (RoleTargetId :> [brokerId |-> b, cedulaRuc |-> 2])
  /\ \E held \in SUBSET AdminRoleIds :
       userRoles = UserRolesCreated(UserId, {1}, UserId)
                     \cup UserRolesCreated(RoleTargetId, held, UserId)
  /\ rolePermissions = {}
  /\ roles = SeedRoles
  /\ invitations = <<>>
  /\ authUsers = (UserId :> [email |-> 1]) @@ (RoleTargetId :> [email |-> 2])
  /\ now = 0
  /\ ticks = 0
  /\ reqs = [p \in Procs |-> IdleReq]
  /\ last = [op |-> "none"]

\* the error deleteRole throws before prisma.role.delete, "none" if none
DeleteRoleError(id) ==
  IF id \notin DOMAIN roles THEN "Role not found"
  ELSE IF \E ur \in userRoles : ur.roleId = id
  THEN "Cannot delete role that is assigned to users"
  ELSE "none"

\* deleteRole up to the delete: the role is read with its userRoles
DeleteRoleCheck(p) ==
  \E id \in AdminRoleIds \cup {NoRoleId} :
    /\ reqs[p].pc = "idle"
    /\ DeleteRoleError(id) = "none"
    /\ reqs' = [reqs EXCEPT ![p] = [pc |-> "delete_role", roleId |-> id]]
    /\ UNCHANGED <<brokers, profiles, userRoles, rolePermissions, roles,
                   invitations, authUsers, now, ticks, last>>

\* ON DELETE CASCADE of user_roles.role_id: the rows left when a role goes
UserRolesCascade(UR, roleId) == {ur \in UR : ur.roleId # roleId}

\* deleteRole: prisma.role.delete; the rows that reference the role go with
\* it; deleting a role that is no longer there throws and changes nothing
DeleteRoleDelete(p) ==
  LET id == reqs[p].roleId IN
  /\ reqs[p].pc = "delete_role"
  /\ IF id \in DOMAIN roles
       THEN /\ roles' = [r \in DOMAIN roles \ {id} |-> roles[r]]
            /\ userRoles' = UserRolesCascade(userRoles, id)
            /\ rolePermissions' = RolePermissionsDeleted(rolePermissions, id)
       ELSE UNCHANGED <<roles, userRoles, rolePermissions>>
  /\ reqs' = [reqs EXCEPT ![p] = IdleReq]
  /\ UNCHANGED <<brokers, profiles, invitations, authUsers, now, ticks, last>>

\* the broker access check shared by the four role mutations: it is made
\* only when the argument is there and the target has a broker
BrokerAccessDenied(userId, arg) ==
  /\ arg.passed
  /\ ~Falsy(profiles[userId].brokerId)
  /\ ~Includes(arg.allowedBrokerIds, profiles[userId].brokerId)

\* the error assignRoleToUser throws before userRole.create, "none" if none
AssignRoleToUserError(userId, roleId, arg) ==
  IF roleId \notin DOMAIN roles THEN "Role not found"
  ELSE IF userId \notin DOMAIN profiles THEN "User not found"
  ELSE IF BrokerAccessDenied(userId, arg) THEN "Access denied"
  ELSE IF \E ur \in userRoles : ur.userId = userId /\ ur.roleId = roleId
  THEN "User already has this role"
  ELSE "none"

\* assignRoleToUser up to the create: the role, the user, the broker access
\* and the existing row are checked
AssignRoleToUserCheck(p) ==
  \E roleId \in AdminRoleIds, arg \in BrokerArgs :
    /\ reqs[p].pc = "idle"
    /\ AssignRoleToUserError(RoleTargetId, roleId, arg) = "none"
    /\ reqs' = [reqs EXCEPT ![p] =
                  [pc |-> "assign_create", userId |-> RoleTargetId,
                   roleIds |-> {roleId}, assignedBy |-> UserId,
                   passed |-> arg.passed,
                   allowedBrokerIds |-> arg.allowedBrokerIds]]
    /\ UNCHANGED <<brokers, profiles, userRoles, rolePermissions, roles,
                   invitations, authUsers, now, ticks, last>>

\* userRole.create / createMany of the rows (userId, r) for r in roleIds:
\* the insert throws, and adds nothing, when a role is gone (foreign key) or
\* a row is already there (primary key)
UserRolesInserted(UR, userId, roleIds, assignedBy) ==
  IF \/ ~(roleIds \subseteq DOMAIN roles)
     \/ \E ur \in UR : ur.userId = userId /\ ur.roleId \in roleIds
    THEN UR
    ELSE UR \cup UserRolesCreated(userId, roleIds, assignedBy)

\* assignRoleToUser: prisma.userRole.create
AssignRoleToUserCreate(p) ==
  LET req == reqs[p] IN
  /\ req.pc = "assign_create"
  /\ userRoles' = UserRolesInserted(userRoles, req.userId, req.roleIds,
                                    req.assignedBy)
  /\ reqs' = [reqs EXCEPT ![p] = IdleReq]
  /\ UNCHANGED <<brokers, profiles, rolePermissions, roles,
                 invitations, authUsers, now, ticks, last>>

\* the error removeRoleFromUser throws before userRole.delete
RemoveRoleFromUserError(userId, roleId, arg) ==
  IF userId \notin DOMAIN profiles THEN "User not found"
  ELSE IF BrokerAccessDenied(userId, arg) THEN "Access denied"
  ELSE IF ~\E ur \in userRoles : ur.userId = userId /\ ur.roleId = roleId
  THEN "User does not have this role"
  ELSE "none"

RemoveRoleFromUserCheck(p) ==
  \E roleId \in AdminRoleIds, arg \in BrokerArgs :
    /\ reqs[p].pc = "idle"
    /\ RemoveRoleFromUserError(RoleTargetId, roleId, arg) = "none"
    /\ reqs' = [reqs EXCEPT ![p] =
                  [pc |-> "remove_delete", userId |-> RoleTargetId,
                   roleIds |-> {roleId}, assignedBy |-> UserId,
                   passed |-> arg.passed,
                   allowedBrokerIds |-> arg.allowedBrokerIds]]
    /\ UNCHANGED <<brokers, profiles, userRoles, rolePermissions, roles,
                   invitations, authUsers, now, ticks, last>>

\* removeRoleFromUser: userRole.delete of the row (userId, roleId); it throws
\* when the row is gone
RemoveRoleFromUserDelete(p) ==
  LET req == reqs[p] IN
  /\ req.pc = "remove_delete"
  /\ userRoles' = {ur \in userRoles :
                     ~(ur.userId = req.userId /\ ur.roleId \in req.roleIds)}
  /\ reqs' = [reqs EXCEPT ![p] = IdleReq]
  /\ UNCHANGED <<brokers, profiles, rolePermissions, roles,
                 invitations, authUsers, now, ticks, last>>

\* the roles of roleIds that assignMultipleRoles creates: those the user
\* does not hold yet
NewRoleIds(userId, roleIds) ==
  {r \in roleIds : ~\E ur \in userRoles : ur.userId = userId /\ ur.roleId = r}

\* the error assignMultipleRoles throws before userRole.createMany
AssignMultipleRolesError(userId, roleIds, arg) ==
  IF userId \notin DOMAIN profiles THEN "User not found"
  ELSE IF BrokerAccessDenied(userId, arg) THEN "Access denied"
  ELSE IF ~(roleIds \subseteq DOMAIN roles) THEN "One or more roles not found"
  ELSE IF NewRoleIds(userId, roleIds) = {}
  THEN "User already has all specified roles"
  ELSE "none"

AssignMultipleRolesCheck(p) ==
  \E roleIds \in SUBSET AdminRoleIds \ {{}}, arg \in BrokerArgs :
    /\ reqs[p].pc = "idle"
    /\ AssignMultipleRolesError(RoleTargetId, roleIds, arg) = "none"
    /\ reqs' = [reqs EXCEPT ![p] =
                  [pc |-> "assign_many_create", userId |-> RoleTargetId,
                   roleIds |-> NewRoleIds(RoleTargetId, roleIds),
                   assignedBy |-> UserId, passed |-> arg.passed,
                   allowedBrokerIds |-> arg.allowedBrokerIds]]
    /\ UNCHANGED <<brokers, profiles, userRoles, rolePermissions, roles,
                   invitations, authUsers, now, ticks, last>>

\* replaceUserRoles up to the transaction, called for one replacement role
\* on the administered user or the caller; the request keeps the argument
\* allowedBrokerIds of the call
ReplaceUserRolesCheckOf(p) ==
  \E userId \in {UserId, RoleTargetId}, roleId \in AdminRoleIds,
     arg \in BrokerArgs :
    /\ reqs[p].pc = "idle"
    /\ ReplaceUserRolesError(userId, {roleId}, arg.passed,
                             arg.allowedBrokerIds) = "none"
    /\ reqs' = [reqs EXCEPT ![p] =
                  [pc |-> "replace_roles_tx", userId |-> userId,
                   roleIds |-> {roleId}, assignedBy |-> UserId,
                   passed |-> arg.passed,
                   allowedBrokerIds |-> arg.allowedBrokerIds]]
    /\ UNCHANGED <<brokers, profiles, userRoles, rolePermissions, roles,
                   invitations, authUsers, now, ticks, last>>

\* assignMultipleRoles: prisma.userRole.createMany of the new roles
AssignMultipleRolesCreate(p) ==
  LET req == reqs[p] IN
  /\ req.pc = "assign_many_create"
  /\ userRoles' = UserRolesInserted(userRoles, req.userId, req.roleIds,
                                    req.assignedBy)
  /\ reqs' = [reqs EXCEPT ![p] = IdleReq]
  /\ UNCHANGED <<brokers, profiles, rolePermissions, roles,
                 invitations, authUsers, now, ticks, last>>

NextRoles ==
  \/ \E p \in Procs : DeleteRoleCheck(p)
  \/ \E p \in Procs : DeleteRoleDelete(p)
  \/ \E p \in Procs : AssignRoleToUserCheck(p)
  \/ \E p \in Procs : AssignRoleToUserCreate(p)
  \/ \E p \in Procs : RemoveRoleFromUserCheck(p)
  \/ \E p \in Procs : RemoveRoleFromUserDelete(p)
  \/ \E p \in Procs : AssignMultipleRolesCheck(p)
  \/ \E p \in Procs : AssignMultipleRolesCreate(p)
  \/ \E p \in Procs : ReplaceUserRolesCheckOf(p)
  \/ \E p \in Procs : ReplaceUserRolesTx(p)

SpecRoles == InitRoles /\ [][NextRoles]_vars

-----------------------------------------------------------------------------
(* AuthorizationService: the guard on a target user and the operations     *)
(* that act on a target user on behalf of a caller                         *)

UsersUpdate == <<"users", Colon, "update">>

UsersDelete == <<"users", Colon, "delete">>

UsersAssignRoles == <<"users", Colon, "assign", Colon, "roles">>

UsersUpdateOwn == <<"users", Colon, "update", Colon, "own">>

TargetIdRequired == "Target user ID is required for validation."

TargetNotFound == "Target user not found."

TargetWithoutBroker == "Target user does not belong to a broker."

AccessDenied ==
  "Access denied: You cannot manage users outside of your broker's hierarchy."

\* the class of a thrown error, by where its message is thrown
ErrorClass(e) ==
  IF e \in {TargetNotFound, TargetWithoutBroker} THEN "NotFoundError"
  ELSE IF e = AccessDenied THEN "ForbiddenError"
  ELSE "Error"

\* _validateUserAccess without the test on accessibleBrokerIds
validateUserAccessNoHierarchyTest(P, targetUserId, accessibleBrokerIds, fail) ==
  IF Falsy(targetUserId) THEN Threw(TargetIdRequired)
  ELSE IF fail THEN Threw("persistence")
  ELSE IF targetUserId \notin DOMAIN P THEN Threw(TargetNotFound)
  ELSE IF Falsy(P[targetUserId].brokerId) THEN Threw(TargetWithoutBroker)
  ELSE Returned(TRUE)

\* AuthorizationService._validateUserAccess: returns, or throws (fail = the
\* profile query throws)
validateUserAccess(P, targetUserId, accessibleBrokerIds, fail) ==
  IF Falsy(targetUserId) THEN Threw(TargetIdRequired)
  ELSE IF fail THEN Threw("persistence")
  ELSE IF targetUserId \notin DOMAIN P THEN Threw(TargetNotFound)
  ELSE IF Falsy(P[targetUserId].brokerId) THEN Threw(TargetWithoutBroker)
  ELSE IF ~Includes(accessibleBrokerIds, P[targetUserId].brokerId)
  THEN Threw(AccessDenied)
  ELSE Returned(TRUE)

\* AuthorizationService.checkUserPermission; failAt names the query that
\* throws, if any
checkUserPermission(P, UR, RP, userId, permission, accessibleBrokerIds, failAt) ==
  LET gate == validateUserAccess(P, userId, accessibleBrokerIds,
                                 failAt = "profile")
  IN IF gate.threw THEN gate
     ELSE userHasPermission(UR, RP, userId, permission, failAt = "permission")

\* PermissionService.userHasAnyPermission: the permissions are tried in
\* order; a throw of userHasPermission is not caught
RECURSIVE userHasAnyPermissionFrom(_, _, _, _, _, _)
userHasAnyPermissionFrom(UR, RP, userId, permissions, i, fail) ==
  IF i > Len(permissions) THEN Returned(FALSE)
  ELSE LET hasPermission == userHasPermission(UR, RP, userId, permissions[i], fail)
       IN IF hasPermission.threw THEN hasPermission
          ELSE IF hasPermission.value THEN Returned(TRUE)
          ELSE userHasAnyPermissionFrom(UR, RP, userId, permissions, i + 1, fail)

userHasAnyPermission(UR, RP, userId, permissions, fail) ==
  userHasAnyPermissionFrom(UR, RP, userId, permissions, 1, fail)

\* AuthorizationService.canUserManageUser; isSelfManagement is "true" or,
\* when the result has no such property, "undefined"
canUserManageUser(UR, RP, managerId, targetUserId, fail) ==
  LET canManageUsers ==
        userHasAnyPermission(UR, RP, managerId,
                             <<UsersUpdate, UsersDelete, UsersAssignRoles>>, fail)
      canManageSelf == userHasPermission(UR, RP, managerId, UsersUpdateOwn, fail)
  IN IF canManageUsers.threw THEN canManageUsers
     ELSE IF ~canManageUsers.value
     THEN Returned([allowed |-> FALSE, isSelfManagement |-> "undefined",
                    reason |-> "Manager does not have user management permissions"])
     ELSE IF managerId = targetUserId
     THEN IF canManageSelf.threw THEN canManageSelf
          ELSE Returned([allowed |-> canManageSelf.value,
                         isSelfManagement |-> "true",
                         reason |-> IF canManageSelf.value
                                    THEN "Self-management allowed"
                                    ELSE "Self-management not permitted"])
     ELSE Returned([allowed |-> TRUE, isSelfManagement |-> "undefined",
                    reason |-> "User management authorized"])

\* AuthorizationService.getUserAccessSummary: the guard, then the counts
getUserAccessSummary(P, UR, RP, userId, accessibleBrokerIds, fail) ==
  LET gate == validateUserAccess(P, userId, accessibleBrokerIds, fail)
      userRoleIds == getUserRoles(UR, userId)
  IN IF gate.threw THEN gate
     ELSE Returned([roleCount |-> Cardinality(userRoleIds),
                    permissionCount |->
                      Cardinality(UNION {PermissionsOf(RP, r) : r \in userRoleIds})])

\* AuthorizationService.validateRoleAssignment
validateRoleAssignment(P, R, UR, RP, assignerId, targetUserId, roleId, fail) ==
  LET canAssignRoles == userHasPermission(UR, RP, assignerId, UsersAssignRoles, fail)
  IN IF canAssignRoles.threw THEN canAssignRoles
     ELSE IF ~canAssignRoles.value
     THEN Returned([valid |-> FALSE,
                    reason |-> "Assigner does not have role assignment permissions"])
     ELSE IF targetUserId \notin DOMAIN P
     THEN Returned([valid |-> FALSE, reason |-> "Target user not found"])
     ELSE IF roleId \notin DOMAIN R
     THEN Returned([valid |-> FALSE, reason |-> "Role not found"])
     ELSE IF \E ur \in UR : ur.userId = targetUserId /\ ur.roleId = roleId
     THEN Returned([valid |-> FALSE, reason |-> "User already has this role"])
     ELSE Returned([valid |-> TRUE, reason |-> "Role assignment is valid"])

-----------------------------------------------------------------------------
(* The authorization family: a small forest, a manager (user 1) whose role  *)
(* carries any rows of a pool, a target (user 2), each on a broker or none  *)

ManagerId == 1

TargetId == 2

\* a user id without a profile
StrangerId == 3

\* rows on the resource users: the seeded actions and the action 'assign'
UsersRowPool ==
  {[resource |-> <<"users">>, action |-> <<"update">>],
   [resource |-> <<"users">>, action |-> <<"delete">>],
   [resource |-> <<"users">>, action |-> <<"assign">>],
   [resource |-> <<"users">>, action |-> <<"assign", Colon, "roles">>],
   [resource |-> <<"users">>, action |-> <<"update", Colon, "own">>]}

InitAuthz ==
  /\ \E k \in SmallIds : brokers = SmallForest(k)
  /\ \E mb, tb \in {Null} \cup SmallIds :
       profiles = (ManagerId :> [brokerId |-> mb, cedulaRuc |-> 1])
                    @@ (TargetId :> [brokerId |-> tb, cedulaRuc |-> 2])
  /\ roles = SeedRoles
  /\ userRoles = {[userId |-> ManagerId, roleId |-> 1, assignedBy |-> ManagerId],
                  [userId |-> TargetId, roleId |-> 3, assignedBy |-> ManagerId]}
  /\ \E rows \in SUBSET UsersRowPool :
       rolePermissions =
         RowsOfRole(1, rows)
           \cup RowsOfRole(3, {[resource |-> <<"users">>, action |-> <<"update">>]})
  /\ invitations = <<>>
  /\ authUsers = (ManagerId :> [email |-> 1]) @@ (TargetId :> [email |-> 2])
  /\ now = 0
  /\ ticks = 0
  /\ reqs = <<>>
  /\ last = [op |-> "none"]

AuthzUserIds == {ManagerId, TargetId, StrangerId, EmptyId}

\* accessibleBrokerIds as the caller passes it: any list of brokers
AccessibleLists == UNION {Orderings(S) : S \in SUBSET SmallIds}

CallCheckUserPermission ==
  /\ Idle
  /\ \E u \in AuthzUserIds, perm \in {UsersUpdate, UsersUpdateOwn, <<"users">>},
        acc \in AccessibleLists, failAt \in {"none", "profile", "permission"} :
       /\ last' = [op |-> "checkUserPermission", a1 |-> u, perm |-> perm,
                   acc |-> acc, failAt |-> failAt,
                   result |-> checkUserPermission(profiles, userRoles,
                                rolePermissions, u, perm, acc, failAt)]
       /\ UNCHANGED storeVars

CallGetUserAccessSummary ==
  /\ Idle
  /\ \E u \in AuthzUserIds, acc \in AccessibleLists, fail \in BOOLEAN :
       /\ last' = [op |-> "getUserAccessSummary", a1 |-> u, acc |-> acc,
                   fail |-> fail,
                   result |-> getUserAccessSummary(profiles, userRoles,
                                rolePermissions, u, acc, fail)]
       /\ UNCHANGED storeVars

CallCanUserManageUser ==
  /\ Idle
  /\ \E m \in {ManagerId, TargetId}, t \in AuthzUserIds, fail \in BOOLEAN :
       /\ last' = [op |-> "canUserManageUser", a1 |-> m, a2 |-> t,
                   fail |-> fail,
                   result |-> canUserManageUser(userRoles, rolePermissions,
                                                m, t, fail)]
       /\ UNCHANGED storeVars

CallValidateRoleAssignment ==
  /\ Idle
  /\ \E a \in {ManagerId, TargetId}, t \in AuthzUserIds,
        roleId \in DOMAIN SeedRoles \cup {NoRoleId}, fail \in BOOLEAN :
       /\ last' = [op |-> "validateRoleAssignment", a1 |-> a, a2 |-> t,
                   roleId |-> roleId, fail |-> fail,
                   result |-> validateRoleAssignment(profiles, roles, userRoles,
                                rolePermissions, a, t, roleId, fail)]
       /\ UNCHANGED storeVars

NextAuthz ==
  \/ CallCheckUserPermission
  \/ CallGetUserAccessSummary
  \/ CallCanUserManageUser
  \/ CallValidateRoleAssignment
  \/ Return

SpecAuthz == InitAuthz /\ [][NextAuthz]_vars

-----------------------------------------------------------------------------
\* Broker isolation middleware (brokerIsolation.middleware.ts) and the broker
\* context that the authentication middleware attaches to the request.

\* a request that no middleware has touched: no user, no broker context
BareRequest ==
  [user |-> Null, hasContext |-> FALSE, userBrokerId |-> Null,
   accessibleBrokerIds |-> <<>>]

\* the requests the authentication middleware can hand on for the user:
\* req.user and req.brokerContext are set; the context lists the descendants
\* of the user's broker, only the broker itself when the hierarchy query
\* fails, and nothing for a user without broker
authenticate(P, B, userId, fail) ==
  LET brokerId == P[userId].brokerId IN
  IF ~Falsy(brokerId) /\ brokerId \in DOMAIN B
    THEN IF fail
           THEN {[user |-> userId, hasContext |-> TRUE,
                  userBrokerId |-> brokerId,
                  accessibleBrokerIds |-> <<brokerId>>]}
           ELSE {[user |-> userId, hasContext |-> TRUE,
                  userBrokerId |-> brokerId, accessibleBrokerIds |-> d] :
                   d \in getDescendantBrokerIds(B, brokerId, FALSE)}
    ELSE {[user |-> userId, hasContext |-> TRUE, userBrokerId |-> Null,
           accessibleBrokerIds |-> <<>>]}

\* what the middleware did with a request: the status of the response it
\* sent (NoResponse when it sent none), how often it called next, and
\* whether and to what it set req.allowedBrokerIds
NoResponse == 0

Responded(status) ==
  [status |-> status, nextCalls |-> 0, allowedSet |-> FALSE,
   allowedBrokerIds |-> <<>>]

PassedOn(allowedSet, allowedBrokerIds) ==
  [status |-> NoResponse, nextCalls |-> 1, allowedSet |-> allowedSet,
   allowedBrokerIds |-> allowedBrokerIds]

Scopes == {"own", "hierarchy"}

requireBrokerAccessHierarchyOnly(req, scope, skipForSystemUsers) ==
  IF req.user = Null THEN Responded(401)
  ELSE IF ~req.hasContext THEN Responded(500)
  ELSE IF Falsy(req.userBrokerId)
    THEN IF skipForSystemUsers THEN PassedOn(FALSE, <<>>)
                               ELSE Responded(403)
  ELSE PassedOn(TRUE, req.accessibleBrokerIds)

requireBrokerAccess(req, scope, skipForSystemUsers) ==
  IF req.user = Null THEN Responded(401)
  ELSE IF ~req.hasContext THEN Responded(500)
  ELSE IF Falsy(req.userBrokerId)
    THEN IF skipForSystemUsers THEN PassedOn(FALSE, <<>>)
                               ELSE Responded(403)
  ELSE IF scope = "own" THEN PassedOn(TRUE, <<req.userBrokerId>>)
  ELSE IF scope = "hierarchy" THEN PassedOn(TRUE, req.accessibleBrokerIds)
  ELSE Responded(500)

\* the user of the family belongs to any broker of a small forest or to none
InitMw ==
  /\ \E k \in SmallIds : brokers = SmallForest(k)
  /\ \E b \in {Null} \cup SmallIds :
       profiles = (UserId :> [brokerId |-> b, cedulaRuc |-> 1])
  /\ roles = SeedRoles
  /\ userRoles = {}
  /\ rolePermissions = {}
  /\ invitations = <<>>
  /\ authUsers = (UserId :> [email |-> 1])
  /\ now = 0
  /\ ticks = 0
  /\ reqs = <<>>
  /\ last = [op |-> "none"]

\* the requests that reach the middleware: untouched, carrying a user but no
\* broker context, or as the authentication middleware left them
RequestsOf(P, B) ==
  {BareRequest, [BareRequest EXCEPT !.user = UserId]}
    \cup authenticate(P, B, UserId, FALSE)
    \cup authenticate(P, B, UserId, TRUE)

CallRequireBrokerAccess ==
  /\ Idle
  /\ \E req \in RequestsOf(profiles, brokers), scope \in Scopes,
        skipForSystemUsers \in BOOLEAN :
       /\ last' = [op |-> "requireBrokerAccess", req |-> req, scope |-> scope,
                   skip |-> skipForSystemUsers,
                   result |-> requireBrokerAccess(req, scope,
                                                  skipForSystemUsers)]
       /\ UNCHANGED storeVars

NextMw ==
  \/ CallRequireBrokerAccess
  \/ Return

SpecMw == InitMw /\ [][NextMw]_vars

-----------------------------------------------------------------------------
(* The parent->child tree, read off the parentId column directly           *)

\* number of parentId links from b up to root, Null when root is not reached
\* within n links
RECURSIVE DepthFrom(_, _, _, _)
DepthFrom(B, b, root, n) ==
  IF b = root THEN 0
  ELSE IF n = 0 \/ b \notin DOMAIN B THEN Null
  ELSE LET d == DepthFrom(B, B[b].parentId, root, n - 1)
       IN IF d = Null THEN Null ELSE d + 1

DepthBelow(B, root, b) == DepthFrom(B, b, root, Cardinality(DOMAIN B))

IsStrictDescendant(B, x, y) ==
  /\ x \in DOMAIN B
  /\ y \in DOMAIN B
  /\ DepthBelow(B, x, y) >= 1

IsOwnAncestor(B, b) ==
  DepthFrom(B, B[b].parentId, b, Cardinality(DOMAIN B)) # Null

Acyclic(B) == \A b \in DOMAIN B : ~IsOwnAncestor(B, b)

\* the store after UPDATE brokers SET parent_id = parentId WHERE id = childId
Reparented(B, parentId, childId) ==
  [B EXCEPT ![childId] = [@ EXCEPT !.parentId = parentId]]

NoRepeats(s) == \A i, j \in 1..Len(s) : s[i] = s[j] => i = j

-----------------------------------------------------------------------------
(* Claims on the hierarchy service, checked under SpecHier *)

\* C1: for non-empty ids X # Y, canUserAccessBroker(X, Y) is true only if Y is
\* a strict descendant of X in the parent->child tree, whether the hierarchy
\* fetch succeeds or fails
C1_AccessOnlyDownward ==
  (/\ last.op = "canUserAccessBroker"
   /\ ~Falsy(last.a1) /\ ~Falsy(last.a2)
   /\ last.a1 # last.a2
   /\ last.result)
  => IsStrictDescendant(brokers, last.a1, last.a2)

\* C1 witness: access to a strict descendant was granted, and access to an
\* ancestor was evaluated (and refused)
C1_Witness ==
  /\ last.op = "canUserAccessBroker"
  /\ last.a1 \in DOMAIN brokers /\ last.a2 \in DOMAIN brokers
  /\ last.a1 # last.a2
  /\ last.result
  /\ IsStrictDescendant(brokers, last.a1, last.a2)
  /\ ~last.fail

\* C2: for non-empty ids X, Y, canUserAccessBroker(X, Y) equals
\* (X = Y or Y is in getDescendantBrokerIds(X)); in particular it is true for
\* X = Y, also for a broker without children
C2_AccessIsSelfOrDescendantList ==
  (/\ last.op = "canUserAccessBroker"
   /\ ~Falsy(last.a1) /\ ~Falsy(last.a2))
  => \A ids \in getDescendantBrokerIds(brokers, last.a1, last.fail) :
       last.result = (last.a1 = last.a2 \/ Includes(ids, last.a2))

\* C2 witness: a broker without children asked for itself while the fetch fails
C2_Witness ==
  /\ last.op = "canUserAccessBroker"
  /\ last.a1 \in DOMAIN brokers
  /\ last.a1 = last.a2
  /\ ChildrenOf(brokers, {last.a1}) = {}
  /\ last.fail
  /\ last.result

\* C6 (as claimed): if validateNoCycles(A, B) returns true for brokers A, B of
\* an acyclic forest and B's parent is then set to A, the graph is still
\* acyclic and getAncestorBrokerIds(A) stays within the depth cap
C6_ValidatedReparentKeepsAcyclic ==
  (/\ last.op = "validateNoCycles"
   /\ last.a1 \in DOMAIN brokers /\ last.a2 \in DOMAIN brokers
   /\ Acyclic(brokers)
   /\ last.result)
  => LET after == Reparented(brokers, last.a1, last.a2)
     IN /\ Acyclic(after)
        /\ \A ids \in getAncestorBrokerIds(after, last.a1, FALSE) :
             Len(ids) <= MaxLevel + 1

\* C7 (as claimed): validateNoCycles with non-empty ids returns false when
\* the hierarchy fetch fails
C7_ValidateFailsClosed ==
  (/\ last.op = "validateNoCycles"
   /\ ~Falsy(last.a1) /\ ~Falsy(last.a2)
   /\ last.fail)
  => last.result = FALSE

\* C8 (as claimed): validateNoCycles(X, X) returns false for every X
C8_SelfParentRejectedForEveryId ==
  (last.op = "validateNoCycles" /\ last.a1 = last.a2) => last.result = FALSE

\* C8 (amended): validateNoCycles(X, X) returns false for every non-empty X,
\* whether X is the id of a broker or not and whether the fetch fails or not
C8_SelfParentRejected ==
  (/\ last.op = "validateNoCycles"
   /\ last.a1 = last.a2
   /\ ~Falsy(last.a1))
  => last.result = FALSE

\* C8 witness: a self-parenting proposal for an id no broker has
C8_Witness ==
  /\ last.op = "validateNoCycles"
  /\ last.a1 = last.a2
  /\ last.a1 = GhostId
  /\ ~last.fail
  /\ last.result = FALSE

\* the depth the spec gives for the traversal: root + 10 levels
DepthCap == 10

\* brokers 1..15 are each parented to the previous
IsChainOf15 == \A b \in 2..15 : b \in DOMAIN brokers /\ brokers[b].parentId = b - 1

\* no broker at or below root has two children
IsChainBelow(B, root) ==
  \A b \in DOMAIN B :
    DepthBelow(B, root, b) # Null => Cardinality(ChildrenOf(B, {b})) <= 1

-----------------------------------------------------------------------------
(* Claims on the permission engine, checked under SpecPerm *)

\* the text before the first colon and, if there is a colon, the whole
\* remainder after it
SplitAtFirstColon(s) ==
  IF \E i \in 1..Len(s) : s[i] = Colon
  THEN LET i == CHOOSE k \in 1..Len(s) :
                  s[k] = Colon /\ \A j \in 1..(k - 1) : s[j] # Colon
       IN <<SubSeq(s, 1, i - 1), SubSeq(s, i + 1, Len(s))>>
  ELSE <<s>>

\* resource, action, scope, ... of a permission string resource:action[:scope]
RECURSIVE ColonParts(_)
ColonParts(s) ==
  LET h == SplitAtFirstColon(s)
  IN IF Len(h) = 1 THEN h ELSE <<h[1]>> \o ColonParts(h[2])

\* the user holds a role that carries the Permission row (resource, action)
HoldsRow(u, resource, action) ==
  \E ur \in userRoles, rp \in rolePermissions :
    /\ ur.userId = u
    /\ ur.roleId = rp.roleId
    /\ rp.resource = resource
    /\ rp.action = action

\* resource:action:own
OwnScoped(perm) ==
  LET parts == ColonParts(perm)
  IN Len(parts) = 3 /\ parts[1] # <<>> /\ parts[2] # <<>> /\ parts[3] = <<"own">>

\* C3: for a permission string with scope 'own', userHasPermissionInBroker is
\* true only when the target equals the user's own brokerId; it is false for
\* every strict descendant and every ancestor of the user's broker
C3_OwnScopeIsOwnBrokerOnly ==
  (/\ last.op = "userHasPermissionInBroker"
   /\ OwnScoped(last.perm)
   /\ last.result)
  => /\ last.a1 \in DOMAIN profiles
     /\ last.a2 = profiles[last.a1].brokerId
     /\ ~IsStrictDescendant(brokers, profiles[last.a1].brokerId, last.a2)
     /\ ~IsStrictDescendant(brokers, last.a2, profiles[last.a1].brokerId)

\* C3 witness: a user who holds the unscoped base permission, and so has
\* hierarchy-wide access, asks with ':own' for a strict descendant of the own
\* broker and is refused
C3_Witness ==
  /\ last.op = "userHasPermissionInBroker"
  /\ OwnScoped(last.perm)
  /\ last.failAt = "none"
  /\ last.a1 \in DOMAIN profiles
  /\ HoldsRow(last.a1, ColonParts(last.perm)[1], ColonParts(last.perm)[2])
  /\ IsStrictDescendant(brokers, profiles[last.a1].brokerId, last.a2)
  /\ canUserAccessBroker(brokers, profiles[last.a1].brokerId, last.a2, FALSE)
  /\ last.result = FALSE

\* C4: while the profile lookup succeeds, for a permission string without a
\* scope (no third token, or an empty one) userHasPermissionInBroker is false
\* when the user lacks the base permission, otherwise it equals
\* canUserAccessBroker(userBrokerId, target) for a user with a broker and is
\* true for every target for a user without one; a scope token other than
\* 'own' yields false
C4_UnscopedFollowsHierarchy ==
  (last.op = "userHasPermissionInBroker" /\ last.failAt # "profile") =>
    LET parts == ColonParts(last.perm)
        u == last.a1
        base == /\ u \in DOMAIN profiles
                /\ Len(parts) >= 2
                /\ HoldsRow(u, parts[1], parts[2])
        noScope == Len(parts) = 2 \/ (Len(parts) >= 3 /\ parts[3] = <<>>)
        otherScope == Len(parts) >= 3 /\ parts[3] \notin {<<>>, <<"own">>}
    IN /\ (noScope /\ ~base) => last.result = FALSE
       /\ (noScope /\ base /\ profiles[u].brokerId # Null) =>
            last.result = canUserAccessBroker(brokers, profiles[u].brokerId,
                                              last.a2, last.failAt = "hierarchy")
       /\ (noScope /\ base /\ profiles[u].brokerId = Null) =>
            last.result = TRUE
       /\ otherScope => last.result = FALSE

\* C4 witness: a system user (no brokerId) holding the base permission is
\* granted an unscoped permission on a broker
C4_Witness ==
  /\ last.op = "userHasPermissionInBroker"
  /\ last.failAt = "none"
  /\ last.a1 \in DOMAIN profiles
  /\ profiles[last.a1].brokerId = Null
  /\ Len(ColonParts(last.perm)) = 2
  /\ last.a2 \in DOMAIN brokers
  /\ last.result = TRUE

\* C5 (as claimed): userHasPermission(u, p) is true iff some role held by u
\* carries a Permission row whose resource is the text of p before the first
\* ':' and whose action is the entire remainder of p after that ':'
C5_ActionIsWholeRemainder ==
  (last.op = "userHasPermission" /\ ~last.fail) =>
    LET h == SplitAtFirstColon(last.perm)
    IN (~last.result.threw /\ last.result.value)
         <=> (Len(h) = 2 /\ HoldsRow(last.a1, h[1], h[2]))

-----------------------------------------------------------------------------
(* Claims on the store under register and acceptInvitation, checked under  *)
(* Spec                                                                    *)

\* C10: in every state reachable by any interleaving of register and
\* acceptInvitation (with sendInvitation and the clock), the broker graph is
\* an acyclic forest: no broker is its own ancestor, every non-null parentId
\* refers to an existing broker, brokers created by register have no parent,
\* and broker names are pairwise distinct
C10_BrokerForest ==
  /\ Acyclic(brokers)
  /\ \A b \in DOMAIN brokers :
       brokers[b].parentId # Null => brokers[b].parentId \in DOMAIN brokers
  /\ \A b \in DOMAIN brokers :
       brokers[b].via = "register" => brokers[b].parentId = Null
  /\ \A b, c \in DOMAIN brokers :
       brokers[b].name = brokers[c].name => b = c

\* C10 witness: an invitation was accepted into a child broker under a broker
\* made by register, while a second acceptance of the same invitation, past
\* its checks, is still to run its transaction
C10_Witness ==
  \E b \in DOMAIN brokers, p \in Procs :
    /\ brokers[b].via = "invitation"
    /\ brokers[b].parentId \in DOMAIN brokers
    /\ brokers[brokers[b].parentId].via = "register"
    /\ reqs[p].pc = "accept_tx"
    /\ invitations[reqs[p].token].status = "accepted"

\* an acceptInvitation call runs its transaction and returns or throws
AcceptSettles(p) == reqs[p].pc = "accept_tx" /\ reqs'[p].pc = "idle"

\* ... and the transaction committed
AcceptCommits(p) == AcceptSettles(p) /\ brokers' # brokers

\* brokers created by acceptInvitation
InvitationBrokers == {b \in DOMAIN brokers : brokers[b].via = "invitation"}

\* C11 (as claimed): whenever register throws after the sign-up succeeded no
\* row of that registration persists and the auth user is deleted; the auth
\* user is never deleted while rows of its registration persist.  In the
\* store: every profile still has its auth-provider user
C11_RegistrationAtomic ==
  \A u \in DOMAIN profiles : u \in DOMAIN authUsers

\* C12: the transaction of acceptInvitation is all or nothing: when a call
\* fails at any step (one of the four writes did not happen) no Broker,
\* Profile or UserRole row is added and the invitation rows are as before
C12_AcceptAllOrNothing ==
  [][\A p \in Procs :
       (/\ AcceptSettles(p)
        /\ \/ brokers' = brokers
           \/ profiles' = profiles
           \/ userRoles' = userRoles
           \/ invitations' = invitations)
       => /\ brokers' = brokers
          /\ profiles' = profiles
          /\ userRoles' = userRoles
          /\ invitations' = invitations
          /\ invitations[reqs[p].token].status = "pending"
               => invitations'[reqs[p].token].status = "pending"]_vars

\* C12 witness: an acceptance failed inside its transaction after the auth
\* user was signed up (the user has no profile), and the invitation is still
\* pending with no child broker created
C12_Witness ==
  /\ \E u \in DOMAIN authUsers : u \notin DOMAIN profiles
  /\ InvitationBrokers = {}
  /\ \E t \in DOMAIN invitations : invitations[t].status = "pending"
  /\ \A p \in Procs : reqs[p].pc = "idle"

\* C13: a successful acceptInvitation of an invitation sent by a user of
\* broker P creates exactly one new Broker with parentId = P, one new Profile
\* whose brokerId is that broker, one UserRole giving it the role agent, and
\* marks the invitation accepted; afterwards getDescendantBrokerIds(P) has P
\* and the child, canUserAccessBroker(P, child) is true and
\* canUserAccessBroker(child, P) is false
C13_AcceptCreatesChildUnderSender ==
  [][\A p \in Procs :
       AcceptCommits(p) =>
         LET token == reqs[p].token
             P == profiles[invitations[token].invitedBy].brokerId
             newBrokers == DOMAIN brokers' \ DOMAIN brokers
             newProfiles == DOMAIN profiles' \ DOMAIN profiles
         IN /\ Cardinality(newBrokers) = 1
            /\ Cardinality(newProfiles) = 1
            /\ \A b \in DOMAIN brokers : brokers'[b] = brokers[b]
            /\ \A u \in DOMAIN profiles : profiles'[u] = profiles[u]
            /\ \A child \in newBrokers, u \in newProfiles :
                 /\ brokers'[child].parentId = P
                 /\ profiles'[u].brokerId = child
                 /\ userRoles \subseteq userRoles'
                 /\ \E ur \in userRoles' :
                      /\ userRoles' \ userRoles = {ur}
                      /\ ur.userId = u
                      /\ roles[ur.roleId].name = "agent"
                 /\ invitations'[token].status = "accepted"
                 /\ \A ids \in getDescendantBrokerIds(brokers', P, FALSE) :
                      Includes(ids, P) /\ Includes(ids, child)
                 /\ canUserAccessBroker(brokers', P, child, FALSE)
                 /\ ~canUserAccessBroker(brokers', child, P, FALSE)]_vars

\* C13 witness: an accepted invitation with its child broker under the
\* sender's broker and its agent profile
C13_Witness ==
  \E t \in DOMAIN invitations, b \in InvitationBrokers, u \in DOMAIN profiles :
    /\ invitations[t].status = "accepted"
    /\ brokers[b].parentId = profiles[invitations[t].invitedBy].brokerId
    /\ profiles[u].brokerId = b
    /\ \E ur \in userRoles : ur.userId = u /\ roles[ur.roleId].name = "agent"
    /\ canUserAccessBroker(brokers, brokers[b].parentId, b, FALSE)

\* C14: an invitation is consumed exactly once: its status never leaves
\* accepted, an acceptance commits only on a pending invitation and turns it
\* accepted, and there are never more brokers created by acceptance than
\* accepted invitations, two concurrent calls for one token included
C14_InvitationSingleUse ==
  /\ [](Cardinality(InvitationBrokers)
          <= Cardinality({t \in DOMAIN invitations :
                            invitations[t].status = "accepted"}))
  /\ [][/\ \A t \in DOMAIN invitations :
             /\ t \in DOMAIN invitations'
             /\ invitations[t].status = "accepted"
                  => invitations'[t].status = "accepted"
        /\ \A p \in Procs :
             AcceptCommits(p) =>
               /\ invitations[reqs[p].token].status = "pending"
               /\ invitations'[reqs[p].token].status = "accepted"]_vars

\* C14 witness: of two concurrent acceptances of one token the first has
\* committed its one child broker and the second is about to run its
\* transaction
C14_Witness ==
  /\ Cardinality(InvitationBrokers) = 1
  /\ \E p \in Procs :
       /\ reqs[p].pc = "accept_tx"
       /\ invitations[reqs[p].token].status = "accepted"
       /\ \A q \in Procs \ {p} : reqs[q].pc = "idle"

\* C15 (as claimed): no reachable state, also after concurrent sendInvitation
\* calls for the same email, holds two pending unexpired invitations for the
\* same email
C15_NoTwoPendingForOneEmail ==
  \A i, j \in DOMAIN invitations :
    (/\ invitations[i].email = invitations[j].email
     /\ invitations[i].status = "pending"
     /\ invitations[j].status = "pending"
     /\ invitations[i].expiresAt > now
     /\ invitations[j].expiresAt > now)
    => i = j

\* the life time of an invitation: 7 days in milliseconds
SevenDays == 604800000

\* C16: sendInvitation sets expiresAt to the creation time + 7 days; once
\* expiresAt is in the past acceptInvitation throws a descriptive error
\* ('Invitation has expired' for a pending invitation) and no call that
\* finds the token expired goes on to sign a user up or to write a row
C16_ExpiredInvitationRejected ==
  /\ [](\A t \in DOMAIN invitations, c \in Cedulas :
          invitations[t].expiresAt < now =>
            /\ AcceptInvitationError(t, c) # "none"
            /\ invitations[t].status = "pending"
                 => AcceptInvitationError(t, c) = "Invitation has expired")
  /\ [][/\ \A p \in Procs :
             (reqs[p].pc = "idle" /\ reqs'[p].pc = "accept_tx")
               => invitations[reqs'[p].token].expiresAt >= now
        /\ \A t \in DOMAIN invitations' \ DOMAIN invitations :
             invitations'[t].expiresAt = now + SevenDays]_vars

\* C16 witness: a pending invitation whose expiresAt is in the past
C16_Witness ==
  \E t \in DOMAIN invitations :
    /\ invitations[t].status = "pending"
    /\ invitations[t].expiresAt < now
    /\ invitations[t].expiresAt = SevenDays

-----------------------------------------------------------------------------
(* Claims on role replacement, checked under SpecReplace *)

\* C17: replaceUserRoles and replaceRolePermissions are atomic: with
\* non-empty replacement sets a concurrent reader never observes the user
\* with zero roles, and a transaction either installs exactly the new set or,
\* when its insert fails, leaves the previous set unchanged
C17_ReplaceIsAtomic ==
  /\ [](last.op = "getUserRoles" => last.result # {})
  /\ [][\A p \in Procs :
          /\ (reqs[p].pc = "replace_roles_tx" /\ reqs'[p].pc = "idle") =>
               \/ userRoles' = userRoles
               \/ /\ RoleIdsOf(userRoles', reqs[p].userId) = reqs[p].roleIds
                  /\ \A u \in DOMAIN profiles \ {reqs[p].userId} :
                       RoleIdsOf(userRoles', u) = RoleIdsOf(userRoles, u)
          /\ (reqs[p].pc = "replace_permissions_tx" /\ reqs'[p].pc = "idle") =>
               \/ rolePermissions' = rolePermissions
               \/ /\ PermissionsOf(rolePermissions', reqs[p].roleId)
                       = reqs[p].permissionIds
                  /\ \A r \in DOMAIN roles \ {reqs[p].roleId} :
                       PermissionsOf(rolePermissions', r)
                         = PermissionsOf(rolePermissions, r)]_vars

\* C17 witness: a reader is served while a replaceUserRoles call stands
\* between its checks and its transaction, and sees a role set that is not
\* the replacement
C17_Witness ==
  /\ last.op = "getUserRoles"
  /\ \E p \in Procs :
       /\ reqs[p].pc = "replace_roles_tx"
       /\ reqs[p].userId = last.a1
       /\ last.result # reqs[p].roleIds
       /\ last.result = getUserRoles(userRoles, last.a1)

-----------------------------------------------------------------------------
(* Claims on AuthorizationService, checked under SpecAuthz *)

\* the call threw an error of the class
ThrewClass(result, class) == result.threw /\ ErrorClass(result.error) = class

\* the target has a profile with a broker that is in the list
GatePassed(u, acc) ==
  /\ u \in DOMAIN profiles
  /\ ~Falsy(profiles[u].brokerId)
  /\ Includes(acc, profiles[u].brokerId)

\* the outcomes of checkUserPermission by the state of the target, whenever
\* no query throws
CheckUserPermissionGated(u, acc, result) ==
  /\ (u \notin DOMAIN profiles \/ Falsy(profiles[u].brokerId))
       => ThrewClass(result, "NotFoundError")
  /\ (/\ u \in DOMAIN profiles
      /\ ~Falsy(profiles[u].brokerId)
      /\ ~Includes(acc, profiles[u].brokerId))
       => ThrewClass(result, "ForbiddenError")
  /\ (~result.threw \/ ThrewClass(result, "Error")) => GatePassed(u, acc)

\* C18 (as claimed): checkUserPermission fails with NotFound if the target
\* user does not exist or has no broker, with Forbidden if the target's
\* brokerId is not in accessibleBrokerIds, and evaluates userHasPermission
\* only after that gate has passed
C18_CheckUserPermissionGate ==
  (last.op = "checkUserPermission" /\ last.failAt = "none") =>
    CheckUserPermissionGated(last.a1, last.acc, last.result)

\* C18 (amended): the same for every non-empty userId; an empty userId fails
\* with a plain Error ('Target user ID is required for validation.') before
\* any lookup
C18_CheckUserPermissionGateNonEmptyId ==
  (last.op = "checkUserPermission" /\ last.failAt = "none") =>
    IF last.a1 = EmptyId
    THEN /\ ThrewClass(last.result, "Error")
         /\ last.result.error = TargetIdRequired
    ELSE CheckUserPermissionGated(last.a1, last.acc, last.result)

\* C18 witness: the target holds the permission asked for, but its broker is
\* not among the caller's accessible brokers: Forbidden, no permission result
C18_Witness ==
  /\ last.op = "checkUserPermission"
  /\ last.failAt = "none"
  /\ last.a1 \in DOMAIN profiles
  /\ ~Falsy(profiles[last.a1].brokerId)
  /\ last.acc # <<>>
  /\ userHasPermission(userRoles, rolePermissions, last.a1, last.perm, FALSE)
       = Returned(TRUE)
  /\ ThrewClass(last.result, "ForbiddenError")

\* the target user's broker lies within the caller's broker hierarchy: the
\* caller's broker or one of its descendants (a caller without a broker is a
\* system user, whose hierarchy is everything)
InCallersHierarchy(caller, target) ==
  /\ caller \in DOMAIN profiles
  /\ target \in DOMAIN profiles
  /\ \/ Falsy(profiles[caller].brokerId)
     \/ /\ ~Falsy(profiles[target].brokerId)
        /\ \/ profiles[target].brokerId = profiles[caller].brokerId
           \/ IsStrictDescendant(brokers, profiles[caller].brokerId,
                                 profiles[target].brokerId)

\* C19 (as claimed): every AuthorizationService operation on a target user
\* reports allowed / valid / a result only if the target user's broker lies
\* within the caller's accessible broker hierarchy
C19_HierarchyGuardEverywhere ==
  /\ last.op \in {"checkUserPermission", "getUserAccessSummary"} =>
       (~last.result.threw => GatePassed(last.a1, last.acc))
  /\ last.op = "canUserManageUser" =>
       ((~last.result.threw /\ last.result.value.allowed)
          => InCallersHierarchy(last.a1, last.a2))
  /\ last.op = "validateRoleAssignment" =>
       ((~last.result.threw /\ last.result.value.valid)
          => InCallersHierarchy(last.a1, last.a2))

\* C20 (as claimed): canUserManageUser(m, t) is allowed only if m holds one
\* of the rows (users, update), (users, delete), (users, 'assign:roles');
\* when m = t and m holds one of them, isSelfManagement is true and allowed
\* is true iff m also holds the row (users, 'update:own')
C20_ManageNeedsPermissionAndOwnForSelf ==
  (last.op = "canUserManageUser" /\ ~last.result.threw) =>
    LET m == last.a1
        manages == \/ HoldsRow(m, <<"users">>, <<"update">>)
                   \/ HoldsRow(m, <<"users">>, <<"delete">>)
                   \/ HoldsRow(m, <<"users">>, <<"assign", Colon, "roles">>)
        res == last.result.value
    IN /\ res.allowed => manages
       /\ (m = last.a2 /\ manages) =>
            /\ res.isSelfManagement = "true"
            /\ res.allowed
                 <=> HoldsRow(m, <<"users">>, <<"update", Colon, "own">>)

-----------------------------------------------------------------------------
(* Further claims on the permission engine, checked under SpecPerm *)

\* how often x occurs in the sequence
Occurrences(seq, x) == Cardinality({i \in 1..Len(seq) : seq[i] = x})

\* the user holds the permission: the row (text before the first ':', rest)
HoldsPermission(u, perm) ==
  LET h == SplitAtFirstColon(perm)
  IN Len(h) = 2 /\ HoldsRow(u, h[1], h[2])

\* C21 (as claimed): for a list of distinct userIds, authorizedUsers and
\* unauthorizedUsers of filterUsersByPermission partition the list (every id
\* is in exactly one of them, exactly once, and authorizedCount +
\* |unauthorizedUsers| = totalUsers), and authorizedUsers holds exactly the
\* ids whose broker is in accessibleBrokerIds and who hold the permission
C21_FilterPartitionsUserIds ==
  (/\ last.op = "filterUsersByPermission"
   /\ ~last.result.threw
   /\ NoRepeats(last.userIds)) =>
    LET res == last.result.value
    IN /\ \A u \in SeqRange(last.userIds) :
            Occurrences(res.authorizedUsers, u)
              + Occurrences(res.unauthorizedUsers, u) = 1
       /\ SeqRange(res.authorizedUsers) \cup SeqRange(res.unauthorizedUsers)
            = SeqRange(last.userIds)
       /\ res.authorizedCount + Len(res.unauthorizedUsers) = res.totalUsers
       /\ \A u \in SeqRange(last.userIds) :
            Includes(res.authorizedUsers, u)
              <=> /\ u \in DOMAIN profiles
                  /\ Includes(last.acc, profiles[u].brokerId)
                  /\ HoldsPermission(u, last.perm)

\* the strings 'resource:action' of the rows the user's roles carry
GrantedStrings(u) ==
  {PermissionString(row) :
     row \in UNION {PermissionsOf(rolePermissions, r) :
                      r \in RoleIdsOf(userRoles, u)}}

\* the first role of the enumeration that carries a row with the string
FirstGranting(roleOrder, str) ==
  roleOrder[CHOOSE i \in 1..Len(roleOrder) :
              /\ \E row \in PermissionsOf(rolePermissions, roleOrder[i]) :
                   PermissionString(row) = str
              /\ \A j \in 1..(i - 1) :
                   \A row \in PermissionsOf(rolePermissions, roleOrder[j]) :
                     PermissionString(row) # str]

\* C22: getUserPermissions(user).permissions is the union over the user's
\* roles of the 'resource:action' strings, each string once, and
\* detailedPermissions has one entry per string, labelled with the first
\* role in enumeration order that grants it
C22_PermissionsDeduplicated ==
  (last.op = "getUserPermissions" /\ ~last.result.threw) =>
    LET res == last.result.value
    IN /\ NoRepeats(res.permissions)
       /\ SeqRange(res.permissions) = GrantedStrings(last.a1)
       /\ Len(res.detailedPermissions) = Len(res.permissions)
       /\ \A i \in 1..Len(res.permissions) :
            /\ PermissionString(res.detailedPermissions[i]) = res.permissions[i]
            /\ res.detailedPermissions[i].fromRole
                 = FirstGranting(last.roleOrder, res.permissions[i])

\* C22 witness: the user holds two roles that both grant 'x:x', which is
\* listed once
C22_Witness ==
  /\ last.op = "getUserPermissions"
  /\ ~last.result.threw
  /\ Len(last.roleOrder) = 2
  /\ \A r \in SeqRange(last.roleOrder) :
       [resource |-> <<"x">>, action |-> <<"x">>]
         \in PermissionsOf(rolePermissions, r)
  /\ Occurrences(last.result.value.permissions, <<"x", Colon, "x">>) = 1
  /\ Len(last.result.value.permissions) > 1

\* resource or action is missing after the split
Malformed(perm) ==
  \/ JsFalsy(Destructure(Split(perm), 1))
  \/ JsFalsy(Destructure(Split(perm), 2))

\* C23 (as claimed): every evaluation entry point called with a malformed
\* permission string surfaces a validation error to the caller, rather than
\* returning false or the empty list
C23_MalformedStringThrows ==
  (last.op \in {"userHasPermission", "userHasPermissionInBroker",
                "getEffectiveBrokerIds"} /\ Malformed(last.perm)) =>
    /\ last.op = "userHasPermission" =>
         last.result.threw /\ last.result.error = "Invalid permission format"
    /\ last.op = "userHasPermissionInBroker" => last.result # FALSE
    /\ last.op = "getEffectiveBrokerIds" => last.result # <<>>

\* C24 (as claimed): when a store query fails during an evaluation on a
\* well-formed permission string the call does not throw, it returns false
\* or the empty list
C24_PersistenceFailureDenies ==
  (last.op \in {"userHasPermission", "userHasPermissionInBroker",
                "getEffectiveBrokerIds"} /\ ~Malformed(last.perm)) =>
    /\ (last.op = "userHasPermission" /\ last.fail) =>
         ~last.result.threw /\ last.result.value = FALSE
    /\ (last.op = "userHasPermissionInBroker" /\ last.failAt = "profile") =>
         last.result = FALSE
    /\ (last.op = "getEffectiveBrokerIds" /\ last.failAt = "profile") =>
         last.result = <<>>

\* C30 (as claimed): for every user u, permission string p and broker t,
\* userHasPermissionInBroker(u, p, t) is true iff t is a member of
\* getEffectiveBrokerIds(u, p), system users and scope tokens other than
\* 'own' included
C30_ScopeResolversAgree ==
  (last.op = "getEffectiveBrokerIds" /\ last.failAt = "none") =>
    \A t \in DOMAIN brokers :
      userHasPermissionInBroker(profiles, userRoles, rolePermissions, brokers,
                                last.a1, last.perm, t, "none")
        <=> Includes(last.result, t)


-----------------------------------------------------------------------------
\* Claim on the broker isolation middleware, checked under SpecMw.

\* what the middleware does before it looks at the scope: the response it
\* sends for a request without user, without broker context, or of a user
\* without broker when the bypass is off
RefusedWith(req, skip) ==
  IF req.user = Null THEN 401
  ELSE IF ~req.hasContext THEN 500
  ELSE IF Falsy(req.userBrokerId) /\ ~skip THEN 403
  ELSE NoResponse

ScopedTo(req, scope) ==
  IF scope = "own" THEN <<req.userBrokerId>> ELSE req.accessibleBrokerIds

\* C25: requireBrokerAccess responds 401 without user, else 500 without
\* broker context, else 403 for a user without broker when the bypass is off;
\* otherwise it calls next exactly once and sets allowedBrokerIds to
\* [userBrokerId] for 'own' and to accessibleBrokerIds for 'hierarchy'; it
\* never both responds and calls next.
C25_RequireBrokerAccess ==
  last.op = "requireBrokerAccess" =>
    LET r == last.result
        refused == RefusedWith(last.req, last.skip) IN
    /\ ~(r.status # NoResponse /\ r.nextCalls > 0)
    /\ IF refused # NoResponse
         THEN r.status = refused /\ r.nextCalls = 0
         ELSE /\ r.status = NoResponse
              /\ r.nextCalls = 1
              /\ r.allowedSet
              /\ r.allowedBrokerIds = ScopedTo(last.req, last.scope)

\* C25 (amended): as above, but allowedBrokerIds is set only for a user with
\* a broker; for a user without broker who passes through the bypass, next is
\* called once and allowedBrokerIds is left unset.
C25_RequireBrokerAccessUnsetOnBypass ==
  last.op = "requireBrokerAccess" =>
    LET r == last.result
        refused == RefusedWith(last.req, last.skip) IN
    /\ ~(r.status # NoResponse /\ r.nextCalls > 0)
    /\ IF refused # NoResponse
         THEN r.status = refused /\ r.nextCalls = 0
         ELSE /\ r.status = NoResponse
              /\ r.nextCalls = 1
              /\ IF Falsy(last.req.userBrokerId)
                   THEN ~r.allowedSet
                   ELSE /\ r.allowedSet
                        /\ r.allowedBrokerIds = ScopedTo(last.req, last.scope)

\* a user whose broker has descendants passes with scope 'own' and is
\* restricted to the own broker
C25_Witness ==
  /\ last.op = "requireBrokerAccess"
  /\ last.scope = "own"
  /\ Len(last.req.accessibleBrokerIds) > 1
  /\ last.result.nextCalls = 1
  /\ last.result.allowedBrokerIds = <<last.req.userBrokerId>>


-----------------------------------------------------------------------------
\* Claim on who may invite, checked under SpecInvite.

HoldsRole(userId, name) ==
  \E ur \in userRoles :
    /\ ur.userId = userId
    /\ ur.roleId \in DOMAIN roles
    /\ roles[ur.roleId].name = name

\* C26: only a sender holding the role broker_admin gets an invitation row
\* created; for any other sender sendInvitation fails and creates none.
C26_OnlyBrokerAdminInvites ==
  \A i \in DOMAIN invitations :
    HoldsRole(invitations[i].invitedBy, "broker_admin")


-----------------------------------------------------------------------------
\* Claims on role administration, checked under SpecRoles.

\* C27: no role that a UserRole row references is ever deleted, and no
\* UserRole row disappears in the step that deletes a role, however
\* deleteRole interleaves with the assignment of the role.
C27_DeleteRoleSparesUserRoles ==
  [][\A r \in DOMAIN roles \ DOMAIN roles' :
       /\ ~\E ur \in userRoles : ur.roleId = r
       /\ userRoles' = userRoles]_vars

MutationPcs ==
  {"assign_create", "remove_delete", "assign_many_create", "replace_roles_tx"}

\* C28: a call of assignRoleToUser, removeRoleFromUser, assignMultipleRoles
\* or replaceUserRoles changes the UserRole rows only when allowedBrokerIds
\* was supplied and holds the broker of the target user.
C28_RoleMutationWithinAllowedBrokers ==
  [][\A p \in Procs :
       (/\ reqs[p].pc \in MutationPcs
        /\ reqs'[p] # reqs[p]
        /\ userRoles' # userRoles)
         => /\ reqs[p].passed
            /\ ~Falsy(profiles[reqs[p].userId].brokerId)
            /\ Includes(reqs[p].allowedBrokerIds,
                        profiles[reqs[p].userId].brokerId)]_vars


-----------------------------------------------------------------------------
\* Claim on the auth provider after acceptInvitation, checked under Spec.

\* C29: when a call of acceptInvitation ends, every auth user it has signed
\* up has a Profile with the same id: the user of a failed acceptance is
\* removed again.
C29_NoOrphanedAuthUserAfterAccept ==
  [][\A p \in Procs :
       AcceptSettles(p) =>
         \A u \in DOMAIN authUsers' \ DOMAIN authUsers :
           u \in DOMAIN profiles']_vars

====
